---------------------------- MODULE Spec2Model ----------------------------
(***************************************************************************)
(* A model of the mapstructure decoder: the Namespace path tracker and the *)
(* error model of src/error.go, and the recursive decode engine of         *)
(* src/unnamed/part_005 (NewDecoder, Decoder.Decode and the decodeXxx      *)
(* family).                                                                *)
(*                                                                         *)
(* Go slices are modelled as they are: a slice header (backing array, len) *)
(* over a heap of backing arrays, with append writing in place when the    *)
(* capacity allows it and allocating a grown array otherwise.              *)
(***************************************************************************)
EXTENDS Integers, Sequences, FiniteSets, TLC

VARIABLES
    \* ---- Namespace objects (src/error.go) ----
    heap,       \* the backing arrays of all []interface{} slices allocated so far
    nss,        \* the *Namespace objects: each one slice header (items)
    nsFamily,   \* for each namespace, the NewNamespace() object it descends from by Duplicate()
    nsOp,       \* the last Namespace method called: [op, target]
    \* ---- one DecoderConfig and the Decoder made from it (part_005) ----
    phase,      \* "config": before NewDecoder; "rejected"; "ready"; "decoded"
    scen,       \* which destination type config.Result points to
    cfg,        \* the DecoderConfig
    dst,        \* the value config.Result points to
    md,         \* *config.Metadata
    calls,      \* number of Decode calls made
    last,       \* the last Decode call: its input, what it returned, what it saw
    \* ---- the library outside a Decoder ----
    hookCall,   \* the last call of a composed DecodeHookFunc (decode_hooks.go)
    agg         \* the *DecodingErrors aggregates built by hand (error.go)

nsVars == <<heap, nss, nsFamily, nsOp>>

decVars == <<phase, scen, cfg, dst, md, calls, last>>

libVars == <<hookCall, agg>>

vars == <<heap, nss, nsFamily, nsOp, phase, scen, cfg, dst, md, calls, last, hookCall, agg>>

-----------------------------------------------------------------------------
(***************************************************************************)
(* Bounds of the model.                                                    *)
(***************************************************************************)
\* number of *Namespace objects alive in the Namespace specification
MaxNs == 2
\* longest namespace (number of segments) built in the Namespace specification
MaxNsLen == 3

-----------------------------------------------------------------------------
(***************************************************************************)
(* Go slices of interface{} items.                                         *)
(***************************************************************************)

\* An array slot that was allocated and never written.
NoItem == [t |-> "none", name |-> "", tag |-> "", useTag |-> FALSE, i |-> 0]

\* NamespaceFld{useTag, name, tag}
NamespaceFld(name, tag, useTag) ==
    [t |-> "fld", name |-> name, tag |-> tag, useTag |-> useTag, i |-> 0]

\* NamespaceIdx(i)
NamespaceIdx(i) == [t |-> "idx", name |-> "", tag |-> "", useTag |-> FALSE, i |-> i]

\* NamespaceKey(k), k a string key
NamespaceKey(k) == [t |-> "key", name |-> k, tag |-> "", useTag |-> FALSE, i |-> 0]

\* The nil slice: no backing array, len 0, cap 0.
NilSlice == [arr |-> 0, len |-> 0]

\* cap(s)
Cap(h, s) == IF s.arr = 0 THEN 0 ELSE Len(h[s.arr])

\* The elements s[0:len(s)].
Items(h, s) == [j \in 1..s.len |-> h[s.arr][j]]

\* The capacity append gives a slice that must grow from oldCap to hold newLen
\* elements: the gc runtime doubles small slices, or takes newLen when that is
\* more (16-byte elements: no size-class rounding below 17 elements).
GrowCap(oldCap, newLen) == IF newLen > 2 * oldCap THEN newLen ELSE 2 * oldCap

\* append(s, xs...): in place when cap(s) suffices, else into a fresh array.
\* The result is the new heap and the returned slice header.
GoAppend(h, s, xs) ==
    LET n == Len(xs)
        c == Cap(h, s)
    IN  IF n = 0 THEN [h |-> h, s |-> s]
        ELSE IF s.len + n <= c
        THEN [h |-> [h EXCEPT ![s.arr] =
                        [j \in 1..c |-> IF j > s.len /\ j <= s.len + n
                                        THEN xs[j - s.len] ELSE @[j]]],
              s |-> [arr |-> s.arr, len |-> s.len + n]]
        ELSE LET nc == GrowCap(c, s.len + n)
                 na == [j \in 1..nc |->
                          IF j <= s.len THEN h[s.arr][j]
                          ELSE IF j <= s.len + n THEN xs[j - s.len]
                          ELSE NoItem]
             IN  [h |-> Append(h, na), s |-> [arr |-> Len(h) + 1, len |-> s.len + n]]

-----------------------------------------------------------------------------
(***************************************************************************)
(* Namespace (src/error.go).  A Namespace value is its items slice header; *)
(* the formatter field is always NamespaceFormatterDefault here.           *)
(***************************************************************************)

\* NamespaceFld.String()
FldString(f) == IF f.useTag /\ f.tag # "" THEN f.tag ELSE f.name

\* valueToStr of NamespaceFormatterDefault: one item with its separator.
ItemToStr(item, sep) ==
    CASE item.t = "fld" -> sep \o FldString(item)
      [] item.t = "idx" -> "[" \o ToString(item.i) \o "]"
      [] item.t = "key" -> "[" \o item.name \o "]"
      [] OTHER -> ""

RECURSIVE FormatFrom(_, _)
\* the loop of NamespaceFormatterDefault over items[i..]
FormatFrom(items, i) ==
    IF i > Len(items) THEN ""
    ELSE ItemToStr(items[i], IF i = 1 THEN "" ELSE ".") \o FormatFrom(items, i + 1)

\* NamespaceFormatterDefault(ns)
NamespaceFormatterDefault(items) == FormatFrom(items, 1)

\* Namespace.String()
NsString(h, ns) == NamespaceFormatterDefault(Items(h, ns))

\* Namespace.Duplicate(): ns_ := *ns; ns_.items = ns.items[:]
Duplicate(h, ns) == [h |-> h, s |-> [arr |-> ns.arr, len |-> ns.len]]

\* Namespace.AppendFld / AppendKey / AppendIdx with one argument
AppendItem(h, ns, item) == GoAppend(h, ns, <<item>>)

\* Namespace.AppendNamespace(namespace)
AppendNamespace(h, ns, namespace) == GoAppend(h, ns, Items(h, namespace))

\* Namespace.PrependNamespace(namespace): ns.items = append(namespace.items, ns.items...)
PrependNamespace(h, ns, namespace) == GoAppend(h, namespace, Items(h, ns))

\* Namespace.UseFldTag(useFldTag): rewrites every NamespaceFld item in place.
UseFldTag(h, ns, useFldTag) ==
    IF ns.len = 0 THEN h
    ELSE [h EXCEPT ![ns.arr] =
            [j \in 1..Len(@) |->
                IF j <= ns.len /\ @[j].t = "fld"
                THEN [@[j] EXCEPT !.useTag = useFldTag] ELSE @[j]]]

-----------------------------------------------------------------------------
(***************************************************************************)
(* The Namespace specification: a program that creates namespaces, takes   *)
(* duplicates and calls the mutating methods on them.                      *)
(***************************************************************************)

\* the segments the program appends: a tagged field, an index, a map key
NsItems == {NamespaceFld("A", "a", FALSE), NamespaceIdx(0), NamespaceKey("k")}

\* Garbage collection: the backing arrays no live slice header refers to are
\* dropped and the others renumbered in order (unobservable to the program).
Collect(h, hdrs) ==
    LET used == {hdrs[i].arr : i \in 1..Len(hdrs)} \ {0}
        rank(a) == Cardinality({u \in used : u <= a})
        nth(k) == CHOOSE a \in used : rank(a) = k
    IN  [h |-> [k \in 1..Cardinality(used) |-> h[nth(k)]],
         s |-> [i \in 1..Len(hdrs) |->
                  [arr |-> IF hdrs[i].arr = 0 THEN 0 ELSE rank(hdrs[i].arr),
                   len |-> hdrs[i].len]]]

\* the decoder is not part of this specification: its variables stay put
\* no composed hook was called, no aggregate was built
LibIdle ==
    /\ hookCall = [op |-> "none"]
    /\ agg = <<>>

DecIdle ==
    /\ phase = "config"
    /\ scen = "none"
    /\ cfg = [Result |-> "pointer"]
    /\ dst = [k |-> "nil"]
    /\ md = <<>>
    /\ calls = 0
    /\ last = <<>>

InitNs ==
    /\ heap = <<>>
    /\ nss = <<>>
    /\ nsFamily = <<>>
    /\ nsOp = [op |-> "none", target |-> 0]
    /\ DecIdle
    /\ LibIdle

\* NewNamespace()
NsNew ==
    /\ Len(nss) < MaxNs
    /\ nss' = Append(nss, NilSlice)
    /\ nsFamily' = Append(nsFamily, Len(nss) + 1)
    /\ nsOp' = [op |-> "NewNamespace", target |-> Len(nss) + 1]
    /\ UNCHANGED <<heap, decVars, libVars>>

\* d := nss[i].Duplicate()
NsDuplicate ==
    \E i \in 1..Len(nss) :
        /\ Len(nss) < MaxNs
        /\ LET r == Duplicate(heap, nss[i])
               g == Collect(r.h, Append(nss, r.s))
           IN  /\ heap' = g.h
               /\ nss' = g.s
        /\ nsFamily' = Append(nsFamily, nsFamily[i])
        /\ nsOp' = [op |-> "Duplicate", target |-> Len(nss) + 1]
        /\ UNCHANGED <<decVars, libVars>>

\* nss[i].AppendFld(f) / AppendKey(k) / AppendIdx(n)
NsAppend ==
    \E i \in 1..Len(nss), item \in NsItems :
        /\ nss[i].len < MaxNsLen
        /\ LET r == AppendItem(heap, nss[i], item)
               g == Collect(r.h, [nss EXCEPT ![i] = r.s])
           IN  /\ heap' = g.h
               /\ nss' = g.s
        /\ nsOp' = [op |-> "Append", target |-> i]
        /\ UNCHANGED <<nsFamily, decVars, libVars>>

\* nss[i].AppendNamespace(*nss[j])
NsAppendNamespace ==
    \E i \in 1..Len(nss), j \in 1..Len(nss) :
        /\ nss[i].len + nss[j].len <= MaxNsLen
        /\ LET r == AppendNamespace(heap, nss[i], nss[j])
               g == Collect(r.h, [nss EXCEPT ![i] = r.s])
           IN  /\ heap' = g.h
               /\ nss' = g.s
        /\ nsOp' = [op |-> "AppendNamespace", target |-> i]
        /\ UNCHANGED <<nsFamily, decVars, libVars>>

\* nss[i].PrependNamespace(*nss[j])
NsPrependNamespace ==
    \E i \in 1..Len(nss), j \in 1..Len(nss) :
        /\ nss[i].len + nss[j].len <= MaxNsLen
        /\ LET r == PrependNamespace(heap, nss[i], nss[j])
               g == Collect(r.h, [nss EXCEPT ![i] = r.s])
           IN  /\ heap' = g.h
               /\ nss' = g.s
        /\ nsOp' = [op |-> "PrependNamespace", target |-> i]
        /\ UNCHANGED <<nsFamily, decVars, libVars>>

\* nss[i].UseFldTag(b)
NsUseFldTag ==
    \E i \in 1..Len(nss), b \in BOOLEAN :
        /\ heap' = UseFldTag(heap, nss[i], b)
        /\ nsOp' = [op |-> "UseFldTag", target |-> i]
        /\ UNCHANGED <<nss, nsFamily, decVars, libVars>>

NextNs ==
    \/ NsNew
    \/ NsDuplicate
    \/ NsAppend
    \/ NsAppendNamespace
    \/ NsPrependNamespace
    \/ NsUseFldTag

SpecNs == InitNs /\ [][NextNs]_vars

-----------------------------------------------------------------------------
(***************************************************************************)
(* Values and destination types of the decoder.                            *)
(*                                                                         *)
(* A source value is what reflect sees of an interface{}: untyped nil, a   *)
(* typed nil pointer, a scalar of one of the five families, a slice, or a  *)
(* map with string keys.  A source map is the sequence of its entries in   *)
(* the order this run's map iteration yields them.  Floats are counted in  *)
(* tenths (15 is 1.5).                                                     *)
(***************************************************************************)
VNil == [k |-> "nil"]
VNilPtr == [k |-> "nilptr"]
VBool(b) == [k |-> "bool", b |-> b]
VInt(n) == [k |-> "int", n |-> n]
VUint(n) == [k |-> "uint", n |-> n]
VFloat(n) == [k |-> "float", n |-> n]
VStr(s) == [k |-> "string", s |-> s]
VSlice(l) == [k |-> "slice", l |-> l]
VArray(l) == [k |-> "array", l |-> l]
VNilSlice == [k |-> "nilslice"]
VMap(entries) == [k |-> "map", m |-> entries]
VNilMap == [k |-> "nilmap"]
VPtr(p) == [k |-> "ptr", p |-> p]
VStruct(fv) == [k |-> "struct", fv |-> fv]
\* a struct given as a source: its type and its value
VRecord(T, v) == [k |-> "record", T |-> T, v |-> v]
VNilChan == [k |-> "nilchan"]
\* one entry of a source map
Entry(key, val) == [key |-> key, val |-> val]

TBool == [k |-> "bool"]
TString == [k |-> "string"]
TInt(bits) == [k |-> "int", bits |-> bits]
TUint(bits) == [k |-> "uint", bits |-> bits]
TFloat == [k |-> "float"]
TIface == [k |-> "iface"]
TChan == [k |-> "chan"]
TSlice(e) == [k |-> "slice", e |-> e]
\* the array type [n]e
TArray(n, e) == [k |-> "array", n |-> n, e |-> e]
TPtr(e) == [k |-> "ptr", e |-> e]
\* map[string]e
TMap(e) == [k |-> "map", e |-> e]
TStruct(f) == [k |-> "struct", f |-> f]
\* a struct field: Go name, the name part of its tag, its tag option
\* ("", "squash" or "remain"), whether it is anonymous (embedded), its type
Field(name, tag, opt, anon, ty) ==
    [name |-> name, tag |-> tag, opt |-> opt, anon |-> anon, ty |-> ty]

RECURSIVE Zero(_)
\* reflect.Zero(T)
Zero(T) ==
    CASE T.k = "bool" -> VBool(FALSE)
      [] T.k = "int" -> VInt(0)
      [] T.k = "uint" -> VUint(0)
      [] T.k = "float" -> VFloat(0)
      [] T.k = "string" -> VStr("")
      [] T.k = "iface" -> VNil
      [] T.k = "slice" -> VNilSlice
      [] T.k = "ptr" -> VNilPtr
      [] T.k = "map" -> VNilMap
      [] T.k = "struct" -> VStruct([i \in 1..Len(T.f) |-> Zero(T.f[i].ty)])
      [] T.k = "array" -> VArray([i \in 1..T.n |-> Zero(T.e)])
      [] OTHER -> VNilChan

\* getKind(val): the kind of a value with the bit widths collapsed
getKind(v) ==
    CASE v.k \in {"nilslice"} -> "slice"
      [] v.k = "record" -> "struct"
      [] v.k \in {"nilmap", "dmap"} -> "map"
      [] OTHER -> v.k

\* The dynamic type of a value held in an interface{}.
TypeOfVal(v) ==
    CASE v.k = "bool" -> TBool
      [] v.k = "int" -> TInt(64)
      [] v.k = "uint" -> TUint(64)
      [] v.k = "float" -> TFloat
      [] v.k = "string" -> TString
      [] v.k \in {"slice", "nilslice"} -> TSlice(TIface)
      [] OTHER -> TMap(TIface)

\* reflect's SetInt / SetUint store the low bits of the 64-bit argument.
\* Widths of 31 bits and more hold every integer of the model unchanged.
WrapInt(n, bits) ==
    IF bits >= 31 THEN n
    ELSE LET modulus == 2 ^ bits
             r == n % modulus
         IN  IF r >= modulus \div 2 THEN r - modulus ELSE r
WrapUint(n, bits) == IF bits >= 31 THEN n ELSE n % (2 ^ bits)

\* int64(f), uint64(f): truncation toward zero of a float counted in tenths
TruncFloat(n) == IF n >= 0 THEN n \div 10 ELSE -((-n) \div 10)

(***************************************************************************)
(* strconv on the strings of the model.                                    *)
(***************************************************************************)
\* strconv.ParseInt(str, 0, bits): [ok, n]
ParseInt(str, bits) ==
    LET r == CASE str = "0" -> [ok |-> TRUE, n |-> 0]
               [] str = "1" -> [ok |-> TRUE, n |-> 1]
               [] str = "-1" -> [ok |-> TRUE, n |-> -1]
               [] str = "300" -> [ok |-> TRUE, n |-> 300]
               [] OTHER -> [ok |-> FALSE, n |-> 0]
    IN  IF r.ok /\ bits < 31 /\ (r.n >= 2 ^ (bits - 1) \/ r.n < -(2 ^ (bits - 1)))
        THEN [ok |-> FALSE, n |-> 0] ELSE r

\* ParseUint taking a sign as ParseInt does
ParseUint_signed(str, bits) ==
    IF str = "-1" THEN [ok |-> TRUE, n |-> 2 ^ bits - 1]
    ELSE IF str \in {"0", "1"} THEN [ok |-> TRUE, n |-> IF str = "0" THEN 0 ELSE 1]
    ELSE [ok |-> FALSE, n |-> 0]

\* strconv.ParseUint(str, 0, bits): [ok, n]
ParseUint(str, bits) ==
    LET r == CASE str = "0" -> [ok |-> TRUE, n |-> 0]
               [] str = "1" -> [ok |-> TRUE, n |-> 1]
               [] str = "300" -> [ok |-> TRUE, n |-> 300]
               [] OTHER -> [ok |-> FALSE, n |-> 0]
    IN  IF r.ok /\ bits < 31 /\ r.n >= 2 ^ bits THEN [ok |-> FALSE, n |-> 0] ELSE r

\* strconv.ParseBool(str): [ok, b]
ParseBool(str) ==
    CASE str \in {"1", "t", "T", "TRUE", "true", "True"} -> [ok |-> TRUE, b |-> TRUE]
      [] str \in {"0", "f", "F", "FALSE", "false", "False"} -> [ok |-> TRUE, b |-> FALSE]
      [] OTHER -> [ok |-> FALSE, b |-> FALSE]

\* strconv.ParseFloat(str, bits): [ok, n], n in tenths
ParseFloat(str) ==
    CASE str = "0" -> [ok |-> TRUE, n |-> 0]
      [] str = "1" -> [ok |-> TRUE, n |-> 10]
      [] str = "-1" -> [ok |-> TRUE, n |-> -10]
      [] str = "300" -> [ok |-> TRUE, n |-> 3000]
      [] str = "1.5" -> [ok |-> TRUE, n |-> 15]
      [] OTHER -> [ok |-> FALSE, n |-> 0]

\* strconv.FormatInt / FormatUint (base 10)
FormatInt(n) == ToString(n)
\* strconv.FormatFloat(f, 'f', -1, 64) of a float counted in tenths
FormatFloat(n) ==
    LET a == IF n < 0 THEN -n ELSE n
        sign == IF n < 0 THEN "-" ELSE ""
    IN  IF a % 10 = 0 THEN sign \o ToString(a \div 10)
        ELSE sign \o ToString(a \div 10) \o "." \o ToString(a % 10)

(***************************************************************************)
(* The scalar decoders.  Each returns the value the destination holds      *)
(* afterwards and the kind of error raised ("" for none).                  *)
(***************************************************************************)
ScalarOk(v) == [v |-> v, kind |-> "", info |-> ""]
ScalarErr(out, kind, info) == [v |-> out, kind |-> kind, info |-> info]

\* Decoder.decodeString
decodeString(c, data, T, out) ==
    CASE data.k = "string" -> ScalarOk(VStr(data.s))
      [] data.k = "bool" /\ c.WeaklyTypedInput ->
            ScalarOk(VStr(IF data.b THEN "1" ELSE "0"))
      [] data.k = "int" /\ c.WeaklyTypedInput -> ScalarOk(VStr(FormatInt(data.n)))
      [] data.k = "uint" /\ c.WeaklyTypedInput -> ScalarOk(VStr(FormatInt(data.n)))
      [] data.k = "float" /\ c.WeaklyTypedInput -> ScalarOk(VStr(FormatFloat(data.n)))
      [] OTHER -> ScalarErr(out, "unexpected type", "unconvertible type")

\* decodeInt converting from another family under weak typing only
decodeInt_weakOnly(c, data, T, out) ==
    CASE data.k = "int" -> ScalarOk(VInt(WrapInt(data.n, T.bits)))
      [] data.k = "uint" /\ c.WeaklyTypedInput -> ScalarOk(VInt(WrapInt(data.n, T.bits)))
      [] data.k = "float" /\ c.WeaklyTypedInput ->
            ScalarOk(VInt(WrapInt(TruncFloat(data.n), T.bits)))
      [] data.k = "bool" /\ c.WeaklyTypedInput -> ScalarOk(VInt(IF data.b THEN 1 ELSE 0))
      [] OTHER -> ScalarErr(out, "unexpected type", "unconvertible type")

\* Decoder.decodeInt
decodeInt(c, data, T, out) ==
    CASE data.k = "int" -> ScalarOk(VInt(WrapInt(data.n, T.bits)))
      [] data.k = "uint" -> ScalarOk(VInt(WrapInt(data.n, T.bits)))
      [] data.k = "float" -> ScalarOk(VInt(WrapInt(TruncFloat(data.n), T.bits)))
      [] data.k = "bool" /\ c.WeaklyTypedInput -> ScalarOk(VInt(IF data.b THEN 1 ELSE 0))
      [] data.k = "string" /\ c.WeaklyTypedInput ->
            LET p == ParseInt(IF data.s = "" THEN "0" ELSE data.s, T.bits)
            IN  IF p.ok THEN ScalarOk(VInt(p.n))
                ELSE ScalarErr(out, "parse failure", "cannot parse as int")
      [] OTHER -> ScalarErr(out, "unexpected type", "unconvertible type")

\* decodeUint with the sign of an integer source not looked at
decodeUint_signIgnored(c, data, T, out) ==
    CASE data.k = "int" -> ScalarOk(VUint(WrapUint(data.n, T.bits)))
      [] data.k = "uint" -> ScalarOk(VUint(WrapUint(data.n, T.bits)))
      [] data.k = "float" ->
            IF data.n < 0 /\ ~c.WeaklyTypedInput
            THEN ScalarErr(out, "parse overflow", "overflows uint")
            ELSE ScalarOk(VUint(WrapUint(TruncFloat(data.n), T.bits)))
      [] OTHER -> ScalarErr(out, "unexpected type", "unconvertible type")

\* Decoder.decodeUint
decodeUint(c, data, T, out) ==
    CASE data.k = "int" ->
            IF data.n < 0 /\ ~c.WeaklyTypedInput
            THEN ScalarErr(out, "parse overflow", "overflows uint")
            ELSE ScalarOk(VUint(WrapUint(data.n, T.bits)))
      [] data.k = "uint" -> ScalarOk(VUint(WrapUint(data.n, T.bits)))
      [] data.k = "float" ->
            IF data.n < 0 /\ ~c.WeaklyTypedInput
            THEN ScalarErr(out, "parse overflow", "overflows uint")
            ELSE IF data.n < 0 /\ c.Arch = "saturating"
            THEN \* uint64(f) of a negative f is implementation-dependent
                 ScalarOk(VUint(0))
            ELSE ScalarOk(VUint(WrapUint(TruncFloat(data.n), T.bits)))
      [] data.k = "bool" /\ c.WeaklyTypedInput -> ScalarOk(VUint(IF data.b THEN 1 ELSE 0))
      [] data.k = "string" /\ c.WeaklyTypedInput ->
            LET p == ParseUint(IF data.s = "" THEN "0" ELSE data.s, T.bits)
            IN  IF p.ok THEN ScalarOk(VUint(p.n))
                ELSE ScalarErr(out, "parse failure", "cannot parse as uint")
      [] OTHER -> ScalarErr(out, "unexpected type", "unconvertible type")

\* Decoder.decodeBool
decodeBool(c, data, T, out) ==
    CASE data.k = "bool" -> ScalarOk(VBool(data.b))
      [] data.k = "int" /\ c.WeaklyTypedInput -> ScalarOk(VBool(data.n # 0))
      [] data.k = "uint" /\ c.WeaklyTypedInput -> ScalarOk(VBool(data.n # 0))
      [] data.k = "float" /\ c.WeaklyTypedInput -> ScalarOk(VBool(data.n # 0))
      [] data.k = "string" /\ c.WeaklyTypedInput ->
            LET p == ParseBool(data.s)
            IN  IF p.ok THEN ScalarOk(VBool(p.b))
                ELSE IF data.s = "" THEN ScalarOk(VBool(FALSE))
                ELSE ScalarErr(out, "parse failure", "cannot parse as bool")
      [] OTHER -> ScalarErr(out, "unexpected type", "unconvertible type")

\* Decoder.decodeFloat
decodeFloat(c, data, T, out) ==
    CASE data.k = "int" -> ScalarOk(VFloat(data.n * 10))
      [] data.k = "uint" -> ScalarOk(VFloat(data.n * 10))
      [] data.k = "float" -> ScalarOk(VFloat(data.n))
      [] data.k = "bool" /\ c.WeaklyTypedInput -> ScalarOk(VFloat(IF data.b THEN 10 ELSE 0))
      [] data.k = "string" /\ c.WeaklyTypedInput ->
            LET p == ParseFloat(IF data.s = "" THEN "0" ELSE data.s)
            IN  IF p.ok THEN ScalarOk(VFloat(p.n))
                ELSE ScalarErr(out, "parse failure", "cannot parse as float")
      [] OTHER -> ScalarErr(out, "unexpected type", "unconvertible type")

-----------------------------------------------------------------------------
(***************************************************************************)
(* Strings: case folding, ordering and joining over the key alphabet.      *)
(***************************************************************************)
\* every key and field name of the model, in sort.Strings (byte) order
SortedStrings ==
    <<"A", "Age", "B", "C", "D", "E", "Emails", "I", "Level1", "Level2", "M", "NAME",
      "Name", "P", "Vbar", "Vfoo", "Vint", "Vlist", "Vstring", "Vuint", "Vunique", "X", "Y",
      "age", "emails", "extra", "j", "k", "name", "vbar", "vfoo", "vint", "vlist", "vstring",
      "vunique">>

\* unicode.ToLower over the strings of the model
ToLower(str) ==
    CASE str \in {"NAME", "Name"} -> "name"
      [] str = "Age" -> "age"
      [] str = "Emails" -> "emails"
      [] str = "A" -> "a"
      [] str = "B" -> "b"
      [] str = "C" -> "c"
      [] str = "D" -> "d"
      [] str = "E" -> "e"
      [] str = "I" -> "i"
      [] str = "M" -> "m"
      [] str = "P" -> "p"
      [] str = "X" -> "x"
      [] str = "Y" -> "y"
      [] str = "Level1" -> "level1"
      [] str = "Level2" -> "level2"
      [] str = "Vbar" -> "vbar"
      [] str = "Vfoo" -> "vfoo"
      [] str = "Vint" -> "vint"
      [] str = "Vlist" -> "vlist"
      [] str = "Vstring" -> "vstring"
      [] str = "Vuint" -> "vuint"
      [] str = "Vunique" -> "vunique"
      [] OTHER -> str

\* strings.EqualFold, the default DecoderConfig.MatchName
EqualFold(a, b) == ToLower(a) = ToLower(b)

\* sort.Strings of a set of strings
SortStrings(S) == SelectSeq(SortedStrings, LAMBDA x : x \in S)

RECURSIVE Join(_, _)
\* strings.Join(strs, sep)
Join(strs, sep) ==
    IF strs = <<>> THEN ""
    ELSE IF Len(strs) = 1 THEN strs[1]
    ELSE strs[1] \o sep \o Join(Tail(strs), sep)

\* []byte(str) for the strings of the model
Bytes(str) ==
    CASE str = "" -> <<>>
      [] str = "0" -> <<48>>
      [] str = "1" -> <<49>>
      [] str = "x" -> <<120>>
      [] str = "-1" -> <<45, 49>>
      [] OTHER -> <<98, 97, 100>>

-----------------------------------------------------------------------------
(***************************************************************************)
(* Decode hooks (DecodeHookFuncKind): what the configured hook returns for *)
(* (from kind, to kind, data).  DecodeHookExec calls it.                   *)
(***************************************************************************)
\* the hook of TestDecode_DecodeHook: a string bound for a non-string becomes 5
HookStringTo5(from, to, data) ==
    IF from = "string" /\ to # "string" THEN [ok |-> TRUE, v |-> VInt(5)]
    ELSE [ok |-> TRUE, v |-> data]

\* a hook that refuses strings bound for an integer and passes the rest on
HookRejectString(from, to, data) ==
    IF from = "string" /\ to = "int" THEN [ok |-> FALSE, v |-> data]
    ELSE [ok |-> TRUE, v |-> data]

\* DecodeHookExec(d.config.DecodeHook, inputVal, outVal)
DecodeHookExec(hook, data, T) ==
    CASE hook = "stringTo5" -> HookStringTo5(getKind(data), T.k, data)
      [] hook = "rejectString" -> HookRejectString(getKind(data), T.k, data)
      [] OTHER -> [ok |-> TRUE, v |-> data]

-----------------------------------------------------------------------------
(***************************************************************************)
(* The decode engine (src/unnamed/part_005).                               *)
(*                                                                         *)
(* Every decodeXxx takes the configuration c, the mutable state m of the   *)
(* call (the heap of namespace arrays, the Metadata lists, the log of hook *)
(* calls), the namespace ns (a slice header, passed by value), the source  *)
(* data, the destination type T and the destination's current value out.  *)
(* It returns the state afterwards, the destination's value afterwards and *)
(* the errors (the members of the *DecodingErrors returned, <<>> for nil). *)
(* isNil tells whether the error value returned is nil: an empty           *)
(* *DecodingErrors returned as an error is not.                            *)
(***************************************************************************)
\* return nil, or return a new error: e is <<>> or one member
Res(m, v, e) == [m |-> m, v |-> v, e |-> e, amk |-> TRUE, isNil |-> e = <<>>]

\* return err, the error a callee returned as r
Passed(m, v, r) == [m |-> m, v |-> v, e |-> r.e, amk |-> TRUE, isNil |-> r.isNil]

\* errors returned whatever its length
Returned_always(m, v, errors) ==
    [m |-> m, v |-> v, e |-> errors, amk |-> TRUE, isNil |-> FALSE]

\* if errors.Len() > 0 { return errors }; return nil
Returned(m, v, errors) ==
    [m |-> m, v |-> v, e |-> errors, amk |-> TRUE, isNil |-> ~(Len(errors) > 0)]

\* NewDecodingErrorFormat(...).SetNamespace(ns): SetNamespace keeps
\* *namespace.Duplicate()
NewError(m, ns, kind, info) ==
    <<[ns |-> Duplicate(m.h, ns).s, kind |-> kind, info |-> info]>>

\* DecodingErrors.Append(err): the members of an aggregate are spliced in,
\* nil adds nothing (err is the sequence of members here)
ErrorsAppend_first(errors, err) == IF errors = <<>> THEN err ELSE errors
ErrorsAppend(errors, err) == errors \o err

\* the Metadata key recorded in place of the keys already there
AddMetaKey_replaced(c, m, ns) ==
    IF c.Metadata /\ ns.len > 0
    THEN [m EXCEPT !.Keys = <<NsString(m.h, ns)>>]
    ELSE m

\* d.config.Metadata.Keys = append(d.config.Metadata.Keys, ns.String())
AddMetaKey(c, m, ns) ==
    IF c.Metadata /\ ns.len > 0
    THEN [m EXCEPT !.Keys = Append(@, NsString(m.h, ns))]
    ELSE m

\* the result of a scalar decoder as a decode result
FromScalar(m, ns, r) ==
    IF r.kind = "" THEN Res(m, r.v, <<>>)
    ELSE Res(m, r.v, NewError(m, ns, r.kind, r.info))

RECURSIVE UseFldTagAll(_, _, _)
\* DecodingErrors.SetNamespaceUseFldTag: every member's namespace in turn
UseFldTagAll(h, errs, b) ==
    IF errs = <<>> THEN h
    ELSE UseFldTagAll(UseFldTag(h, errs[1].ns, b), Tail(errs), b)

\* the name a struct field is looked up by: the tag's name part, or the Go name
FieldName(f) == IF f.tag # "" THEN f.tag ELSE f.name

RECURSIVE TypeAt(_, _)
\* the type of the (possibly squashed) field at a path of field indices
TypeAt(T, path) ==
    IF path = <<>> THEN T
    ELSE LET S == IF T.k = "ptr" THEN T.e ELSE T
         IN  TypeAt(S.f[path[1]].ty, Tail(path))

RECURSIVE GetAt(_, _)
\* reflect's structVal.Field(i) along a path
GetAt(v, path) ==
    IF path = <<>> THEN v
    ELSE LET sv == IF v.k = "ptr" THEN v.p ELSE v
         IN  GetAt(sv.fv[path[1]], Tail(path))

RECURSIVE SetAt(_, _, _)
\* the struct value with the field at a path replaced
SetAt(v, path, nv) ==
    IF path = <<>> THEN nv
    ELSE LET sv == IF v.k = "ptr" THEN v.p ELSE v
             upd == [sv EXCEPT !.fv[path[1]] = SetAt(@, Tail(path), nv)]
         IN  IF v.k = "ptr" THEN VPtr(upd) ELSE upd

\* a field squashed only by the configuration
Squashed_configOnly(c, kind, f) == c.Squash /\ kind = "struct" /\ f.anon

\* squash := d.config.Squash && fieldVal.Kind() == reflect.Struct &&
\* fieldType.Anonymous, or the tag has the option "squash"
Squashed(c, kind, f) == (c.Squash /\ kind = "struct" /\ f.anon) \/ f.opt = "squash"

RECURSIVE CollectFields(_, _, _, _, _)
\* The first loop of decodeStructFromMap: the fields of the struct and of
\* its squashed embedded structs, breadth first.  queue holds the paths of
\* the structs still to scan; acc is [fields, remain, squashErr].
CollectFields(c, T, out, queue, acc) ==
    IF queue = <<>> THEN acc
    ELSE LET p == Head(queue)
             ST == LET t0 == TypeAt(T, p) IN IF t0.k = "ptr" THEN t0.e ELSE t0
             n == Len(ST.f)
             \* a non-nil pointer to a struct is handled as the struct
             deref(i) == LET fv == GetAt(out, p \o <<i>>)
                         IN  fv.k = "ptr" /\ fv.p.k = "struct"
             kindOf(i) == IF deref(i) THEN "struct" ELSE ST.f[i].ty.k
             squash(i) == Squashed(c, kindOf(i), ST.f[i])
             remain(i) == ST.f[i].opt = "remain" /\ ~squash(i)
             ref(i) == [path |-> p \o <<i>>, f |-> ST.f[i], deref |-> deref(i)]
             plain == SelectSeq([i \in 1..n |-> i], LAMBDA i : ~squash(i) /\ ~remain(i))
             sq == SelectSeq([i \in 1..n |-> i], LAMBDA i : squash(i) /\ kindOf(i) = "struct")
             bad == SelectSeq([i \in 1..n |-> i], LAMBDA i : squash(i) /\ kindOf(i) # "struct")
             rem == SelectSeq([i \in 1..n |-> i], LAMBDA i : remain(i))
         IN  CollectFields(c, T, out,
                Tail(queue) \o [x \in 1..Len(sq) |-> p \o <<sq[x]>>],
                [fields |-> acc.fields \o [x \in 1..Len(plain) |-> ref(plain[x])],
                 remain |-> IF rem = <<>> THEN acc.remain ELSE <<ref(rem[Len(rem)])>>,
                 squashErr |-> acc.squashErr \o [x \in 1..Len(bad) |-> ST.f[bad[x]].name]])

RECURSIVE SquashErrors(_, _, _)
\* the errors "unsupported type for squash", one per offending field
SquashErrors(m, ns, names) ==
    IF names = <<>> THEN [m |-> m, e |-> <<>>]
    ELSE LET a == AppendItem(m.h, Duplicate(m.h, ns).s, NamespaceFld(names[1], "", FALSE))
             m1 == [m EXCEPT !.h = a.h]
             rest == SquashErrors(m1, ns, Tail(names))
         IN  [m |-> rest.m,
              e |-> NewError(m1, a.s, "destination squash failure", names[1]) \o rest.e]

RECURSIVE decode(_, _, _, _, _, _)

\* the state with the heap of namespace arrays replaced
WithHeap(m, h) == [m EXCEPT !.h = h]

\* *ns.Duplicate().AppendFld(..) / AppendKey(..) / AppendIdx(..): the heap
\* afterwards and the child's namespace
ChildNs(m, ns, item) == AppendItem(m.h, Duplicate(m.h, ns).s, item)

\* d.decode(<child namespace a>, input, <child destination>)
decodeChild(c, m, a, input, T, out) == decode(c, WithHeap(m, a.h), a.s, input, T, out)

\* decodeBasic, after the decode into the copy: val.Set(elem.Elem())
BasicStore(out, r) ==
    IF ~r.isNil THEN Passed(r.m, out, r) ELSE Res(r.m, r.v.p, <<>>)

\* Decoder.decodeBasic: the destination is an interface{}.  When it holds a
\* value, that value is not addressable: decode into a copy behind a fresh,
\* unsettable pointer and store the copy back.
decodeBasic(c, m, ns, data, T, out) ==
    IF out.k # "nil"
    THEN BasicStore(out, decode(c, m, Duplicate(m.h, ns).s, data, TPtr(TypeOfVal(out)),
                                [k |-> "ptr", p |-> out, noset |-> TRUE]))
    ELSE Res(m, data, <<>>)

\* decodePtr with a settable pointer, after the decode of the pointee
PtrSet(out, fresh, r) ==
    [m |-> r.m, e |-> r.e, amk |-> FALSE, isNil |-> r.isNil,
     v |-> IF ~r.isNil /\ fresh THEN out ELSE VPtr(r.v)]

\* decodePtr with an unsettable pointer: the pointee is decoded in place
PtrInPlace(out, r) ==
    [m |-> r.m, e |-> r.e, amk |-> FALSE, isNil |-> r.isNil,
     v |-> [out EXCEPT !.p = r.v]]

\* Decoder.decodePtr
decodePtr(c, m, ns, data, T, out) ==
    IF data.k \in {"nilslice", "nilmap"}
    THEN Res(m, IF out.k # "nilptr" /\ "noset" \notin DOMAIN out THEN VNilPtr ELSE out,
             <<>>)
    ELSE IF "noset" \notin DOMAIN out
    THEN PtrSet(out, out.k = "nilptr" \/ c.ZeroFields,
                decode(c, m, Duplicate(m.h, ns).s, data, T.e,
                       IF out.k = "nilptr" \/ c.ZeroFields THEN Zero(T.e) ELSE out.p))
    ELSE PtrInPlace(out, decode(c, m, Duplicate(m.h, ns).s, data, T.e, out.p))

\* valSlice as the destination whatever its length
MakeValSlice_keepLonger(c, out, n, T) ==
    IF out.k = "nilslice" \/ c.ZeroFields THEN [i \in 1..n |-> Zero(T.e)]
    ELSE out.l

\* decodeSlice: valSlice before the loop, for a source of n elements
MakeValSlice(c, out, n, T) ==
    IF out.k = "nilslice" \/ c.ZeroFields THEN [i \in 1..n |-> Zero(T.e)]
    ELSE IF Len(out.l) > n THEN SubSeq(out.l, 1, n)
    ELSE out.l

\* decodeSlice: valSlice = reflect.Append(valSlice, reflect.Zero(valElemType))
Extend(st, j, T) ==
    IF Len(st.v) < j THEN [st EXCEPT !.v = Append(@, Zero(T.e))] ELSE st

\* decodeSlice, after the decode of element j: errors.Append(err)
AfterElem(st, j, r) ==
    [m |-> r.m, v |-> [st.v EXCEPT ![j] = r.v], e |-> ErrorsAppend(st.e, r.e)]

\* decodeSlice: one turn of the loop, element j (1-based)
SliceElem(c, ns, el, T, j, st) ==
    AfterElem(st, j, decodeChild(c, st.m, ChildNs(st.m, ns, NamespaceIdx(j - 1)),
                                 el, T.e, st.v[j]))

RECURSIVE SliceElems(_, _, _, _, _, _)
\* The loop of decodeSlice, from index j on.  st is [m, v, e] with v the
\* sequence of elements of valSlice; DOMAIN st is never empty, as in
\* StructFields.
SliceElems(c, ns, data, T, j, st) ==
    IF j > Len(data.l) \/ DOMAIN st = {} THEN st
    ELSE SliceElems(c, ns, data, T, j + 1,
                    SliceElem(c, ns, data.l[j], T, j, Extend(st, j, T)))

\* decodeSlice: val.Set(valSlice) and the errors
SliceStore(st) == Returned(st.m, VSlice(st.v), st.e)

RECURSIVE decodeSlice(_, _, _, _, _, _)
\* Decoder.decodeSlice
decodeSlice(c, m, ns, data, T, out) ==
    IF data.k \notin {"slice", "nilslice"}
    THEN IF c.WeaklyTypedInput
         THEN CASE data.k = "map" /\ Len(data.m) = 0 -> Res(m, VSlice(<<>>), <<>>)
                [] data.k = "string" /\ T.e.k = "uint" /\ T.e.bits = 8 ->
                      decodeSlice(c, m, Duplicate(m.h, ns).s,
                          VSlice([i \in 1..Len(Bytes(data.s)) |-> VUint(Bytes(data.s)[i])]),
                          T, out)
                [] OTHER ->
                      decodeSlice(c, m, Duplicate(m.h, ns).s, VSlice(<<data>>), T, out)
         ELSE Res(m, out, NewError(m, ns, "unexpected type", "must be an array or slice"))
    ELSE IF data.k = "nilslice" THEN Res(m, out, <<>>)
    ELSE SliceStore(SliceElems(c, ns, data, T, 1,
            [m |-> m, v |-> MakeValSlice(c, out, Len(data.l), T), e |-> <<>>]))

\* A panic of the reflect package: the call does not return.  It is kept as
\* a result whose only member has the kind "panic", the destination being
\* what was written before; an array is the whole destination in this
\* model, so that no code of the engine runs after the panic.
Panicked(m, v, ns, what) ==
    [m |-> m, v |-> v, amk |-> FALSE, isNil |-> FALSE,
     e |-> <<[ns |-> Duplicate(m.h, ns).s, kind |-> "panic", info |-> what]>>]

\* decodeArray: one turn of the loop, element j (1-based)
ArrayElem(c, ns, el, T, j, st) ==
    AfterElem(st, j, decodeChild(c, st.m, ChildNs(st.m, ns, NamespaceIdx(j - 1)),
                                 el, T.e, st.v[j]))

RECURSIVE ArrayElems(_, _, _, _, _, _)
\* The loop of decodeArray over the elements l of the source, from index j
\* on, up to the turn whose valArray.Index(i) is outside the array.  st is
\* [m, v, e] with v the elements of valArray; DOMAIN st is never empty, as in
\* StructFields.
ArrayElems(c, ns, l, T, j, st) ==
    IF j > Len(l) \/ j > Len(st.v) \/ DOMAIN st = {} THEN st
    ELSE ArrayElems(c, ns, l, T, j + 1, ArrayElem(c, ns, l[j], T, j, st))

\* decodeArray after the loop: val.Set(valArray) and the errors, or the panic
\* of valArray.Index(i) that ended the loop
ArrayStore(ns, l, st) ==
    IF Len(l) > Len(st.v)
    THEN Panicked(st.m, VArray(st.v), ns, "reflect: array index out of range")
    ELSE Returned(st.m, VArray(st.v), st.e)

\* decodeArray: the loop and what follows, valArray holding the elements v
ArrayFill(c, m, ns, l, T, v) ==
    ArrayStore(ns, l, ArrayElems(c, ns, l, T, 1, [m |-> m, v |-> v, e |-> <<>>]))

\* decodeArray with the array holding its zero value or ZeroFields set: the
\* source is checked and decoded into a new array
ArrayChecked(c, m, ns, l, T, out) ==
    IF Len(l) > T.n
    THEN Res(m, out, NewError(m, ns, "incompatible size", "expected length less or equal"))
    ELSE ArrayFill(c, m, ns, l, T, Zero(T).l)

\* decodeArray with the array holding something and ZeroFields not set: the
\* source is not checked, dataVal.Len() and valArray.Index(i) are called on
\* whatever it is
ArrayInPlace(c, m, ns, data, T, out) ==
    CASE data.k = "slice" -> ArrayFill(c, m, ns, data.l, T, out.l)
      [] data.k = "nilslice" -> Res(m, out, <<>>)
      [] data.k = "map" /\ Len(data.m) = 0 -> Res(m, out, <<>>)
      [] data.k = "map" ->
            Panicked(m, out, ns, "reflect: call of reflect.Value.Index on map Value")
      [] data.k = "string" ->
            ArrayFill(c, m, ns, [i \in 1..Len(Bytes(data.s)) |-> VUint(Bytes(data.s)[i])],
                      T, out.l)
      [] OTHER -> Panicked(m, out, ns, "reflect: call of reflect.Value.Len")

RECURSIVE decodeArray(_, _, _, _, _, _)
\* Decoder.decodeArray
decodeArray(c, m, ns, data, T, out) ==
    IF out = Zero(T) \/ c.ZeroFields
    THEN CASE data.k = "slice" -> ArrayChecked(c, m, ns, data.l, T, out)
           [] data.k = "nilslice" -> ArrayChecked(c, m, ns, <<>>, T, out)
           [] c.WeaklyTypedInput /\ data.k = "map" /\ Len(data.m) = 0 ->
                 Res(m, Zero(T), <<>>)
           [] c.WeaklyTypedInput /\ data.k # "map" ->
                 decodeArray(c, m, Duplicate(m.h, ns).s, VSlice(<<data>>), T, out)
           [] OTHER ->
                 Res(m, out, NewError(m, ns, "unexpected type", "must be an array or slice"))
    ELSE ArrayInPlace(c, m, ns, data, T, out)

\* valMap as a new map whatever the destination holds
MakeValMap_fresh(c, out) == [k |-> "dmap", d |-> <<>>]

\* decodeMap: valMap, the destination map or a fresh one
MakeValMap(c, out) ==
    IF out.k = "nilmap" \/ c.ZeroFields THEN [k |-> "dmap", d |-> <<>>] ELSE out

\* valMap.SetMapIndex(currentKey, currentVal)
SetMapIndex(vm, key, val) ==
    [k |-> "dmap",
     d |-> [x \in (DOMAIN vm.d) \cup {key} |-> IF x = key THEN val ELSE vm.d[x]]]

\* decodeMapFromMap: errors.Append(err); continue
EntryFailed(st, r) == [st EXCEPT !.m = r.m, !.e = ErrorsAppend(@, r.e)]

\* decodeMapFromMap, after the decode of an entry's value
MapEntryStore(st, key, rv) ==
    IF ~rv.isNil THEN EntryFailed(st, rv)
    ELSE [m |-> rv.m, v |-> SetMapIndex(st.v, key, rv.v), e |-> st.e]

\* decodeMapFromMap, after the decode of an entry's key: the value is
\* decoded into a fresh element, under the same namespace as the key
MapEntryValue(c, ns, en, T, st, rk) ==
    IF ~rk.isNil THEN EntryFailed(st, rk)
    ELSE MapEntryStore(st, rk.v.s,
            decodeChild(c, rk.m, ChildNs(rk.m, ns, NamespaceKey(en.key)),
                        en.val, T.e, Zero(T.e)))

\* decodeMapFromMap: one turn of the loop, entry en
MapEntry(c, ns, en, T, st) ==
    MapEntryValue(c, ns, en, T, st,
        decodeChild(c, st.m, ChildNs(st.m, ns, NamespaceKey(en.key)),
                    VStr(en.key), TString, Zero(TString)))

RECURSIVE MapEntries(_, _, _, _, _, _)
\* The loop of decodeMapFromMap, from entry j on.  st is [m, v, e] with v the
\* map built up; DOMAIN st is never empty, as in StructFields.
MapEntries(c, ns, data, T, j, st) ==
    IF j > Len(data.m) \/ DOMAIN st = {} THEN st
    ELSE MapEntries(c, ns, data, T, j + 1, MapEntry(c, ns, data.m[j], T, st))

\* decodeMapFromMap: val.Set(valMap) and the errors
MapStore(st) == Returned(st.m, st.v, st.e)

\* Decoder.decodeMapFromMap
decodeMapFromMap(c, m, ns, data, T, out, valMap) ==
    IF Len(data.m) = 0 THEN Res(m, valMap, <<>>)
    ELSE MapStore(MapEntries(c, ns, data, T, 1, [m |-> m, v |-> valMap, e |-> <<>>]))

RECURSIVE MapFromSliceElems(_, _, _, _, _, _)
\* The loop of decodeMapFromSlice, from element j on: each element is decoded
\* into the destination map itself; the first error returns.  r is the
\* result so far.
MapFromSliceElems(c, ns, data, T, j, r) ==
    IF j > Len(data.l) \/ ~r.isNil THEN r
    ELSE MapFromSliceElems(c, ns, data, T, j + 1,
            decode(c, r.m, Duplicate(r.m.h, ns).s, data.l[j], T, r.v))

\* Decoder.decodeMapFromSlice
decodeMapFromSlice(c, m, ns, data, T, out, valMap) ==
    IF data.k = "nilslice" \/ Len(data.l) = 0 THEN Res(m, valMap, <<>>)
    ELSE MapFromSliceElems(c, ns, data, T, 1, Res(m, out, <<>>))

\* v.Type().AssignableTo(valMap.Type().Elem())
AssignableTo(ft, et) == et.k = "iface" \/ ft = et

\* decodeMapFromStruct: return <an error>; the map may be the destination's
\* own and then keeps what was stored
MapFromStructFailed(st, m, e) ==
    [st EXCEPT !.m = m, !.e = e, !.failed = TRUE]

RECURSIVE MergeKeys(_, _, _)
\* for _, k := range vMap.MapKeys() { valMap.SetMapIndex(k, vMap.MapIndex(k)) }
MergeKeys(vm, sub, keys) ==
    IF keys = <<>> THEN vm
    ELSE MergeKeys(SetMapIndex(vm, Head(keys), sub.d[Head(keys)]), sub, Tail(keys))

\* decodeMapFromStruct with the map of a struct field merged into the
\* parent's whether the field is squashed or not
StructFieldStore_merged(st, keyName, squash, r) ==
    IF ~r.isNil THEN MapFromStructFailed(st, r.m, r.e)
    ELSE [st EXCEPT !.m = r.m,
                    !.v = MergeKeys(@, r.v, SortStrings(DOMAIN r.v.d))]

\* decodeMapFromStruct, after the decode of a struct field into a map of
\* its own: the map is merged into valMap when the field is squashed, and
\* stored under the field's key otherwise
StructFieldStore(st, keyName, squash, r) ==
    IF ~r.isNil THEN MapFromStructFailed(st, r.m, r.e)
    ELSE IF squash
    THEN [st EXCEPT !.m = r.m,
                    !.v = MergeKeys(@, r.v, SortStrings(DOMAIN r.v.d))]
    ELSE [st EXCEPT !.m = r.m, !.v = SetMapIndex(@, keyName, r.v)]

\* decodeMapFromStruct: one turn of the loop, field f holding v; dv is v
\* with a pointer to a struct followed, and dT its type
MapFromStructField(c, ns, T, f, v, dv, dT, st) ==
    IF ~AssignableTo(f.ty, T.e)
    THEN MapFromStructFailed(st, st.m,
            NewError(st.m, ns, "unexpected type", "cannot assign to map value"))
    ELSE IF f.opt = "squash" /\ dv.k # "struct"
    THEN MapFromStructFailed(st, st.m,
            NewError(st.m, ns, "unexpected type", "cannot squash non-struct type"))
    ELSE IF dv.k = "struct"
    THEN StructFieldStore(st, FieldName(f), Squashed(c, v.k, f),
            decodeChild(c, st.m, ChildNs(st.m, ns, NamespaceKey(FieldName(f))),
                        VRecord(dT, dv), T, [k |-> "dmap", d |-> <<>>]))
    ELSE [st EXCEPT !.v = SetMapIndex(@, FieldName(f), dv)]

RECURSIVE MapFromStructFields(_, _, _, _, _, _)
\* The loop of decodeMapFromStruct, from field i on.  st is [m, v, e,
\* failed] with v the map built so far.
MapFromStructFields(c, ns, data, T, i, st) ==
    IF i > Len(data.T.f) \/ st.failed THEN st
    ELSE MapFromStructFields(c, ns, data, T, i + 1,
            MapFromStructField(c, ns, T, data.T.f[i], data.v.fv[i],
                IF data.v.fv[i].k = "ptr" /\ data.v.fv[i].p.k = "struct"
                THEN data.v.fv[i].p ELSE data.v.fv[i],
                IF data.T.f[i].ty.k = "ptr" THEN data.T.f[i].ty.e ELSE data.T.f[i].ty,
                st))

\* decodeMapFromStruct: val.Set(valMap), or the error
MapFromStructReturn(c, out, st) ==
    IF st.failed
    THEN [m |-> st.m, e |-> st.e, amk |-> TRUE, isNil |-> FALSE,
          v |-> IF out.k = "dmap" /\ ~c.ZeroFields THEN st.v ELSE out]
    ELSE Res(st.m, st.v, <<>>)

\* Decoder.decodeMapFromStruct.  The tag options "omitempty" and "-" and the
\* option IgnoreUntaggedFields are not modelled: no field has them.
decodeMapFromStruct(c, m, ns, data, T, out, valMap) ==
    MapFromStructReturn(c, out,
        MapFromStructFields(c, ns, data, T, 1,
            [m |-> m, v |-> valMap, e |-> <<>>, failed |-> FALSE]))

\* dataVal.MapKeys() of a map a decode built, and the value of each: the map
\* as a source.  The keys come in sort order.
RECURSIVE AsSource(_)
AsSource(v) ==
    IF v.k = "dmap"
    THEN VMap([i \in 1..Len(SortStrings(DOMAIN v.d)) |->
                Entry(SortStrings(DOMAIN v.d)[i],
                      AsSource(v.d[SortStrings(DOMAIN v.d)[i]]))])
    ELSE v

\* Decoder.decodeMap: the destination is a map[string]T.e
decodeMap(c, m, ns, data, T, out) ==
    CASE data.k = "map" ->
            decodeMapFromMap(c, m, Duplicate(m.h, ns).s, data, T, out, MakeValMap(c, out))
      [] data.k = "record" ->
            decodeMapFromStruct(c, m, Duplicate(m.h, ns).s, data, T, out,
                                MakeValMap(c, out))
      [] data.k \in {"slice", "nilslice"} /\ c.WeaklyTypedInput ->
            decodeMapFromSlice(c, m, Duplicate(m.h, ns).s, data, T, out,
                               MakeValMap(c, out))
      [] OTHER -> Res(m, out, NewError(m, ns, "unexpected type", "expected a map"))

\* the least index of a non-empty set of indices
First(S) == CHOOSE i \in S : \A i2 \in S : i <= i2

\* the source entry for a field with MatchName tried over the keys before
\* the key equal to the name
Lookup_matchNameFirst(data, fieldName) ==
    IF \E i \in 1..Len(data.m) : EqualFold(data.m[i].key, fieldName)
    THEN First({i \in 1..Len(data.m) : EqualFold(data.m[i].key, fieldName)
                                         /\ data.m[i].key # fieldName}
               \cup {i \in 1..Len(data.m) :
                        data.m[i].key = fieldName
                        /\ \A i2 \in 1..Len(data.m) :
                              EqualFold(data.m[i2].key, fieldName) => i2 = i})
    ELSE 0

\* decodeStructFromMap: the source entry for a field, 0 when there is none.
\* dataVal.MapIndex(fieldName), else the first key the range over the keys
\* yields that matches under MatchName.
Lookup(data, fieldName) ==
    IF \E i \in 1..Len(data.m) : data.m[i].key = fieldName
    THEN First({i \in 1..Len(data.m) : data.m[i].key = fieldName})
    ELSE IF \E i \in 1..Len(data.m) : EqualFold(data.m[i].key, fieldName)
    THEN First({i \in 1..Len(data.m) : EqualFold(data.m[i].key, fieldName)})
    ELSE 0

\* targetValKeysUnused[fieldName] = struct{}{}
AddUnset(unset, fieldName) ==
    IF \E x \in 1..Len(unset) : unset[x] = fieldName THEN unset
    ELSE Append(unset, fieldName)

\* the destination of a field: the field, or the struct its pointer points to
FieldCur(v, fr) == IF fr.deref THEN GetAt(v, fr.path).p ELSE GetAt(v, fr.path)
FieldType(fr) == IF fr.deref THEN fr.f.ty.e ELSE fr.f.ty

\* decodeStructFromMap after the decode of a field, the source key not
\* struck off the unused keys
AfterField_keyKept(st, fr, key, r) ==
    [m |-> WithHeap(r.m, UseFldTagAll(r.m.h, r.e, FALSE)),
     v |-> SetAt(st.v, fr.path, IF fr.deref THEN VPtr(r.v) ELSE r.v),
     e |-> ErrorsAppend(st.e, r.e),
     unused |-> st.unused,
     unset |-> st.unset]

\* decodeStructFromMap, after the decode of a field:
\* errors.Append(AsLocalizedError(err).SetNamespaceUseFieldName(true))
AfterField(st, fr, key, r) ==
    [m |-> WithHeap(r.m, UseFldTagAll(r.m.h, r.e, FALSE)),
     v |-> SetAt(st.v, fr.path, IF fr.deref THEN VPtr(r.v) ELSE r.v),
     e |-> ErrorsAppend(st.e, r.e),
     unused |-> st.unused \ {key},
     unset |-> st.unset]

\* decodeStructFromMap: one turn of the second loop, field fr bound to the
\* source entry idx
StructField(c, ns, data, fr, st, idx) ==
    IF idx = 0 THEN [st EXCEPT !.unset = AddUnset(@, FieldName(fr.f))]
    ELSE AfterField(st, fr, data.m[idx].key,
            decodeChild(c, st.m,
                        ChildNs(st.m, ns, NamespaceFld(fr.f.name, FieldName(fr.f), TRUE)),
                        data.m[idx].val, FieldType(fr), FieldCur(st.v, fr)))

RECURSIVE StructFields(_, _, _, _, _)
\* The second loop of decodeStructFromMap over the fields left.  st is
\* [m, v, e, unused, unset]: the state, the struct's value, the errors, the
\* source keys not yet used and the field names found unset so far.
\* (DOMAIN st is never empty: the test has each turn's outcome evaluated
\* before the next turn starts, in the order of the loop.)
StructFields(c, ns, data, flds, st) ==
    IF flds = <<>> \/ DOMAIN st = {} THEN st
    ELSE StructFields(c, ns, data, Tail(flds),
            StructField(c, ns, data, Head(flds), st,
                        Lookup(data, FieldName(Head(flds).f))))

\* decodeStructFromMap before the second loop
StructStart(data, out, se) ==
    [m |-> se.m, v |-> out, e |-> se.e,
     unused |-> {data.m[i].key : i \in 1..Len(data.m)},
     unset |-> <<>>]

\* decodeStructFromMap, after decodeMap into the "remain" field
AfterRemain(st, rf, r) ==
    [m |-> r.m, v |-> SetAt(st.v, rf.path, r.v), e |-> ErrorsAppend(st.e, r.e),
     unused |-> {}, unset |-> st.unset]

\* decodeStructFromMap: the "remain" field takes the unused keys
StructRemain(c, ns, data, remain, st) ==
    IF remain # <<>> /\ st.unused # {}
    THEN AfterRemain(st, remain[1],
            decodeMap(c, st.m, Duplicate(st.m.h, ns).s,
                      VMap(SelectSeq(data.m, LAMBDA en : en.key \in st.unused)),
                      remain[1].f.ty, GetAt(st.v, remain[1].path)))
    ELSE st

\* decodeStructFromMap: the error "has invalid keys" under ErrorUnused
UnusedError(c, ns, st) ==
    IF c.ErrorUnused /\ st.unused # {}
    THEN ErrorsAppend(st.e, NewError(st.m, ns, "unused keys",
                                     Join(SortStrings(st.unused), ", ")))
    ELSE st.e

\* decodeStructFromMap: the error "has unset fields" under ErrorUnset
UnsetError(c, ns, st, e) ==
    IF c.ErrorUnset /\ st.unset # <<>>
    THEN ErrorsAppend(e, NewError(st.m, ns, "unset fields",
            Join(SortStrings({st.unset[i] : i \in 1..Len(st.unset)}), ", ")))
    ELSE e

\* key = ns.String() + "." + key
Prefixed(m, ns, keys) ==
    [i \in 1..Len(keys) |->
        IF ns.len > 0 THEN NsString(m.h, ns) \o "." \o keys[i] ELSE keys[i]]

\* decodeStructFromMap: the end.  With errors, return them; else record the
\* unused keys and the unset fields in the Metadata.
StructReturn(c, ns, data, st, e) ==
    IF e # <<>> THEN Res(st.m, st.v, e)
    ELSE IF c.Metadata
    THEN Res([st.m EXCEPT
                !.Unused = @ \o Prefixed(st.m, ns,
                    SelectSeq([i \in 1..Len(data.m) |-> data.m[i].key],
                              LAMBDA key : key \in st.unused)),
                !.Unset = @ \o Prefixed(st.m, ns, st.unset)],
             st.v, <<>>)
    ELSE Res(st.m, st.v, <<>>)

\* decodeStructFromMap after the second loop and the "remain" field
StructFinish(c, ns, data, st) ==
    StructReturn(c, ns, data, st, UnsetError(c, ns, st, UnusedError(c, ns, st)))

\* decodeStructFromMap after the first loop, which gave col
StructBody(c, m, ns, data, out, col) ==
    StructFinish(c, ns, data,
        StructRemain(c, ns, data, col.remain,
            StructFields(c, ns, data, col.fields,
                StructStart(data, out, SquashErrors(m, ns, col.squashErr)))))

\* Decoder.decodeStructFromMap
decodeStructFromMap(c, m, ns, data, T, out) ==
    StructBody(c, m, ns, data, out,
        CollectFields(c, T, out, <<<<>>>>,
                      [fields |-> <<>>, remain |-> <<>>, squashErr |-> <<>>]))

\* decodeStruct from a struct of another type, after its decode into a map:
\* the map is decoded into the destination
StructFromStruct(c, ns, T, out, r) ==
    IF ~r.isNil THEN Passed(r.m, out, r)
    ELSE decodeStructFromMap(c, r.m, Duplicate(r.m.h, ns).s, AsSource(r.v), T, out)

\* Decoder.decodeStruct
decodeStruct(c, m, ns, data, T, out) ==
    CASE data.k = "record" /\ data.T = T -> Res(m, data.v, <<>>)
      [] data.k = "map" -> decodeStructFromMap(c, m, Duplicate(m.h, ns).s, data, T, out)
      [] data.k = "record" ->
            StructFromStruct(c, ns, T, out,
                decodeMapFromStruct(c, m, Duplicate(m.h, ns).s, data, TMap(TIface),
                                    [k |-> "dmap", d |-> <<>>],
                                    [k |-> "dmap", d |-> <<>>]))
      [] OTHER -> Res(m, out, NewError(m, ns, "unexpected type", "expected a map"))

\* decode: input, err = DecodeHookExec(d.config.DecodeHook, inputVal, outVal)
HookResult(c, input, T) ==
    IF c.DecodeHook = "none" THEN [ok |-> TRUE, v |-> input]
    ELSE DecodeHookExec(c.DecodeHook, input, T)

\* the log of hook calls: where the hook was called and what it answered
LogHook(c, m, ns, T, hk) ==
    IF c.DecodeHook = "none" THEN m
    ELSE [m EXCEPT !.log = Append(@, [path |-> NsString(m.h, ns), to |-> T.k,
                                      ok |-> hk.ok])]

\* decode: return AsDecodingErrors(AsLocalizedError(err).PrependNamespace(ns));
\* pn is the outcome of PrependNamespace on the error's empty namespace
HookError(m, out, pn) ==
    Res(WithHeap(m, pn.h), out,
        <<[ns |-> pn.s, kind |-> "generic error", info |-> "hook"]>>)

\* decode: the switch on getKind(outVal)
Dispatch(c, m, ns, data, T, out) ==
    CASE T.k = "bool" -> FromScalar(m, Duplicate(m.h, ns).s, decodeBool(c, data, T, out))
      [] T.k = "iface" -> decodeBasic(c, m, Duplicate(m.h, ns).s, data, T, out)
      [] T.k = "string" ->
            FromScalar(m, Duplicate(m.h, ns).s, decodeString(c, data, T, out))
      [] T.k = "int" -> FromScalar(m, Duplicate(m.h, ns).s, decodeInt(c, data, T, out))
      [] T.k = "uint" -> FromScalar(m, Duplicate(m.h, ns).s, decodeUint(c, data, T, out))
      [] T.k = "float" -> FromScalar(m, Duplicate(m.h, ns).s, decodeFloat(c, data, T, out))
      [] T.k = "struct" -> decodeStruct(c, m, Duplicate(m.h, ns).s, data, T, out)
      [] T.k = "map" -> decodeMap(c, m, Duplicate(m.h, ns).s, data, T, out)
      [] T.k = "ptr" -> decodePtr(c, m, Duplicate(m.h, ns).s, data, T, out)
      [] T.k = "slice" -> decodeSlice(c, m, Duplicate(m.h, ns).s, data, T, out)
      [] T.k = "array" -> decodeArray(c, m, Duplicate(m.h, ns).s, data, T, out)
      [] OTHER -> [m |-> m, v |-> out, amk |-> FALSE, isNil |-> FALSE,
                   e |-> NewError(m, ns, "unsupported type", T.k)]

\* decode: the Metadata key after the switch, and the return
Finish(c, ns, r) == Passed(IF r.amk THEN AddMetaKey(c, r.m, ns) ELSE r.m, r.v, r)

\* decode, after the hook answered hk (m has the call logged)
AfterHook(c, m, ns, T, out, hk) ==
    IF ~hk.ok THEN HookError(m, out, PrependNamespace(m.h, NilSlice, ns))
    ELSE Finish(c, ns, Dispatch(c, m, ns, hk.v, T, out))

\* decode with a non-nil input
decodeValue(c, m, ns, input, T, out, hk) ==
    AfterHook(c, LogHook(c, m, ns, T, hk), ns, T, out, hk)

\* Decoder.decode
decode(c, m, ns, input, T, out) ==
    IF input.k \in {"nil", "nilptr"}
    THEN \* nil, or a typed nil pointer: nothing is set unless ZeroFields
         IF c.ZeroFields THEN Res(AddMetaKey(c, m, ns), Zero(T), <<>>)
         ELSE Res(m, out, <<>>)
    ELSE decodeValue(c, m, ns, input, T, out, HookResult(c, input, T))

-----------------------------------------------------------------------------
(***************************************************************************)
(* The decoder specification: a caller fills in a DecoderConfig, calls     *)
(* NewDecoder and, when that succeeds, Decoder.Decode on an input.         *)
(***************************************************************************)
\* number of Decode calls on one Decoder
MaxCalls == 1

\* a key left out of a source map
Absent == [k |-> "absent"]
Opt(key, v) == IF v = Absent THEN <<>> ELSE <<Entry(key, v)>>

\* type Person of ExampleDecode_errors (src/unnamed/part_009) with its fields
\* Name string, Age int and Emails []string; its field Extra is left out, so
\* that the source key "extra" is a key that no field takes
PersonT ==
    TStruct(<<Field("Name", "", "", FALSE, TString),
              Field("Age", "", "", FALSE, TInt(64)),
              Field("Emails", "", "", FALSE, TSlice(TString))>>)

\* four levels of nested structs: struct { A struct { B struct { C struct { D, E int } } } }
DeepT ==
    TStruct(<<Field("A", "", "", FALSE,
        TStruct(<<Field("B", "", "", FALSE,
            TStruct(<<Field("C", "", "", FALSE,
                TStruct(<<Field("D", "", "", FALSE, TInt(64)),
                          Field("E", "", "", FALSE, TInt(64))>>))>>))>>))>>)

\* struct { Name string; Rest map[string]interface{} `mapstructure:",remain"` }
RestT ==
    TStruct(<<Field("Name", "", "", FALSE, TString),
              Field("Rest", "", "remain", FALSE, TMap(TIface))>>)

\* struct { M map[string]int; P *int; I interface{} }
HolderT ==
    TStruct(<<Field("M", "", "", FALSE, TMap(TInt(64))),
              Field("P", "", "", FALSE, TPtr(TInt(64))),
              Field("I", "", "", FALSE, TIface)>>)

\* type Basic of the tests, with its fields Vstring string, Vint int and
\* Vuint uint
BasicT ==
    TStruct(<<Field("Vstring", "", "", FALSE, TString),
              Field("Vint", "", "", FALSE, TInt(64)),
              Field("Vuint", "", "", FALSE, TUint(64))>>)

\* the source of a Basic: a map with the keys vstring and vint, when given
BasicSource(s, i) == VMap(Opt("vstring", s) \o Opt("vint", i))

\* type EmbeddedSquash of the tests, one level deeper: struct { Level1
\* `mapstructure:",squash"`; Vunique string } with the embedded Level1 being
\* struct { Level2 `mapstructure:",squash"`; Vint int } and the embedded
\* Level2 being struct { Vstring string }
SquashT ==
    TStruct(<<Field("Level1", "", "squash", TRUE,
                TStruct(<<Field("Level2", "", "squash", TRUE,
                            TStruct(<<Field("Vstring", "", "", FALSE, TString)>>)),
                          Field("Vint", "", "", FALSE, TInt(64))>>)),
              Field("Vunique", "", "", FALSE, TString)>>)

\* the same fields declared on the record itself:
\* struct { Vstring string; Vint int; Vunique string }
FlatT ==
    TStruct(<<Field("Vstring", "", "", FALSE, TString),
              Field("Vint", "", "", FALSE, TInt(64)),
              Field("Vunique", "", "", FALSE, TString)>>)

\* type NestedPointer of the tests: struct { Vfoo string; Vbar *Basic }
NestedPointerT ==
    TStruct(<<Field("Vfoo", "", "", FALSE, TString),
              Field("Vbar", "", "", FALSE, TPtr(BasicT))>>)

\* a record with a nested record, to be decoded into a map and back:
\* struct { Vfoo string; Vint int; Vlist []string; Vbar Basic }
NestedT ==
    TStruct(<<Field("Vfoo", "", "", FALSE, TString),
              Field("Vint", "", "", FALSE, TInt(64)),
              Field("Vlist", "", "", FALSE, TSlice(TString)),
              Field("Vbar", "", "", FALSE, BasicT)>>)

\* struct { X T } for a scalar type T
ScalarT(T) == TStruct(<<Field("X", "", "", FALSE, T)>>)

ScalarScens == {"bool", "string", "int64", "int8", "uint8", "float64"}
Scens == {"person", "deep", "holder", "rest", "bars"} \cup ScalarScens

\* the type config.Result points to
TypeOf(sc) ==
    CASE sc = "person" -> PersonT
      [] sc = "deep" -> DeepT
      [] sc = "holder" -> HolderT
      [] sc = "rest" -> RestT
      [] sc = "bars" -> TSlice(BasicT)
      [] sc = "squash" -> SquashT
      [] sc = "nptr" -> NestedPointerT
      [] sc = "tomap" -> TMap(TIface)
      [] sc = "shared" -> PersonT
      [] sc = "merge" -> TMap(TInt(64))
      [] sc = "array" -> TArray(2, TInt(64))
      [] sc = "fold" -> PersonT
      [] sc = "bool" -> ScalarT(TBool)
      [] sc = "string" -> ScalarT(TString)
      [] sc = "int64" -> ScalarT(TInt(64))
      [] sc = "int8" -> ScalarT(TInt(8))
      [] sc = "uint8" -> ScalarT(TUint(8))
      [] OTHER -> ScalarT(TFloat)

\* number of maps in a source that is a sequence of maps
MaxMaps == 3

\* the values the destination may hold before the call
Priors(sc) ==
    CASE sc = "person" ->
            {Zero(PersonT),
             VStruct(<<VStr("p"), VInt(9), VSlice(<<VStr("q"), VStr("r")>>)>>)}
      [] sc = "holder" ->
            {Zero(HolderT),
             VStruct(<<[k |-> "dmap", d |-> [x \in {"k"} |-> VInt(7)]],
                       VPtr(VInt(3)), VInt(2)>>)}
      [] sc = "deep" ->
            {Zero(DeepT),
             VStruct(<<VStruct(<<VStruct(<<VStruct(<<VInt(8), VInt(9)>>)>>)>>)>>)}
      [] sc = "nptr" ->
            {Zero(NestedPointerT),
             VStruct(<<VStr(""), VPtr(VStruct(<<VStr(""), VInt(0), VUint(42)>>))>>)}
      [] sc = "squash" ->
            {Zero(SquashT),
             VStruct(<<VStruct(<<VStruct(<<VStr("p")>>), VInt(9)>>), VStr("q")>>)}
      [] sc = "merge" ->
            {VNilMap, [k |-> "dmap", d |-> [x \in {"i"} |-> VInt(7)]]}
      [] sc = "array" ->
            {Zero(TArray(2, TInt(64))), VArray(<<VInt(7), VInt(8)>>)}
      [] sc = "bars" ->
            {VNilSlice,
             VSlice(<<VStruct(<<VStr(""), VInt(0), VUint(42)>>),
                      VStruct(<<VStr("foo"), VInt(0), VUint(0)>>)>>)}
      [] OTHER -> {Zero(TypeOf(sc))}

ScalarSources ==
    {VBool(TRUE), VBool(FALSE), VInt(1), VInt(-1), VInt(300), VUint(1), VUint(300),
     VFloat(15), VFloat(-15), VFloat(10), VStr("1"), VStr("-1"), VStr("1.5"),
     VStr("0"), VStr("300"),
     VStr("bad"), VStr(""), VNil, VSlice(<<>>), VMap(<<>>)}

\* the orders in which a range over a map with the entries es may yield them
Orders(es) ==
    {o \in [1..Cardinality(es) -> es] :
        \A i, j \in 1..Cardinality(es) : o[i] = o[j] => i = j}

\* the inputs given to Decode
Sources(sc) ==
    CASE sc = "person" ->
            {VMap(Opt("Name", n) \o Opt("Age", a) \o Opt("Emails", e)
                    \o Opt("extra", x) \o Opt("name", l)) :
                n \in {Absent, VStr("x"), VInt(1), VNil},
                a \in {Absent, VInt(1), VStr("bad"), VNil},
                e \in {Absent, VSlice(<<VStr("a")>>), VSlice(<<VInt(1)>>),
                       VSlice(<<VStr("a"), VInt(1), VInt(2)>>), VStr("a")},
                x \in {Absent, VInt(1)},
                l \in {Absent, VStr("y")}}
            \cup {VNil, VInt(1)}
      [] sc = "deep" ->
            {VMap(<<Entry("A", VMap(<<Entry("B", VMap(<<Entry("C",
                    VMap(Opt("D", d) \o Opt("E", e) \o Opt("extra", x)))>>))>>))>>) :
                d \in {Absent, VInt(1), VStr("bad"), VNil},
                e \in {Absent, VInt(1), VStr("bad"), VNil},
                x \in {Absent, VInt(1)}}
            \cup {VNil, VMap(<<Entry("A", VInt(5))>>),
                  VMap(<<Entry("A", VMap(<<Entry("B", VStr("bad"))>>))>>)}
      [] sc = "holder" ->
            {VMap(Opt("M", mm) \o Opt("P", pp) \o Opt("I", ii)) :
                mm \in {Absent, VNil, VInt(1)} \cup
                       {VMap(Opt("k", v) \o Opt("j", w)) :
                            v \in {Absent, VInt(1), VStr("bad"), VNil},
                            w \in {Absent, VInt(1), VStr("bad")}},
                pp \in {Absent, VNil, VNilPtr, VInt(1), VStr("bad")},
                ii \in {Absent, VNil, VInt(1), VStr("x")}}
      [] sc = "rest" ->
            {VMap(Opt("Name", n) \o Opt("extra", x) \o Opt("k", y)) :
                n \in {Absent, VStr("x"), VInt(1)},
                x \in {Absent, VInt(1)},
                y \in {Absent, VStr("y")}}
      [] sc = "tomap" ->
            {VRecord(NestedT, VStruct(<<f, i, l, b>>)) :
                f \in {VStr(""), VStr("foo")},
                i \in {VInt(0), VInt(-7)},
                l \in {VNilSlice, VSlice(<<>>), VSlice(<<VStr("a"), VStr("b")>>)},
                b \in {Zero(BasicT), VStruct(<<VStr("foo"), VInt(42), VUint(42)>>)}}
      [] sc = "shared" ->
            {VMap(<<Entry("Name", VStr("x")), Entry("Age", VInt(1))>>),
             VMap(<<Entry("Name", VStr("x")), Entry("extra", VInt(1))>>),
             VMap(<<Entry("Age", VStr("bad")), Entry("Emails", VSlice(<<VStr("a")>>))>>),
             VNil}
      [] sc = "merge" ->
            LET el == {VMap(<<Entry("k", VInt(1))>>),
                       VMap(<<Entry("k", VInt(2)), Entry("j", VInt(1))>>),
                       VMap(<<Entry("j", VInt(2))>>), VMap(<<>>)}
            IN  {VSlice(l) : l \in UNION {[1..n -> el] : n \in 1..MaxMaps}}
      [] sc = "fold" ->
            {VMap(o) : o \in UNION {
                Orders({en \in {Entry("Name", n), Entry("name", l), Entry("NAME", u),
                                Entry("Age", a)} : en.val # Absent}) :
                    n \in {Absent, VStr("x")}, l \in {Absent, VStr("y")},
                    u \in {Absent, VStr("z")}, a \in {Absent, VInt(1), VStr("bad")}}}
      [] sc = "array" ->
            {VSlice(l) : l \in UNION {[1..n -> {VInt(1), VStr("bad")}] : n \in 0..3}}
                \cup {VNil, VNilSlice, VInt(1), VMap(<<>>)}
      [] sc = "nptr" ->
            {VMap(Opt("vfoo", f) \o Opt("vbar", b)) :
                f \in {Absent, VStr("foo")},
                b \in {Absent, VNil, VInt(1), BasicSource(VStr("foo"), VInt(42)),
                       BasicSource(Absent, VInt(42)), BasicSource(Absent, VStr("bad")),
                       BasicSource(VStr("foo"), VStr("bad"))}}
      [] sc = "squash" ->
            {VMap(Opt("vstring", v) \o Opt("vint", i) \o Opt("vunique", u)
                    \o Opt("extra", x) \o Opt("Level1", l)) :
                v \in {Absent, VStr("foo"), VInt(1), VNil},
                i \in {Absent, VInt(42), VStr("bad")},
                u \in {Absent, VStr("bar"), VInt(1)},
                x \in {Absent, VInt(1)},
                l \in {Absent, VMap(<<Entry("vint", VInt(7))>>)}}
      [] sc = "bars" ->
            LET el == {BasicSource(VStr("foo"), VInt(42)), BasicSource(Absent, VInt(42)),
                       BasicSource(Absent, VStr("bad"))}
            IN  {VSlice(l) : l \in UNION {[1..n -> el] : n \in 0..3}}
                    \cup {VNil, VNilSlice, VInt(1)}
      [] OTHER -> {VMap(<<Entry("X", v)>>) : v \in ScalarSources}

\* the hooks a configuration may carry
Hooks(sc) == IF sc \in {"deep", "holder"}
             THEN {"none", "stringTo5", "rejectString"} ELSE {"none"}

\* the configurations the caller may build for a destination.  Arch is not
\* a field of DecoderConfig: it is the build's conversion of a negative float
\* to an unsigned integer, which the language leaves to the implementation
\* (the value wraps around, or it saturates at 0).
Configs(sc) ==
    [Result : {"pointer", "value", "nil pointer"},
     ZeroFields : BOOLEAN,
     WeaklyTypedInput : BOOLEAN,
     ErrorUnused : BOOLEAN,
     ErrorUnset : IF sc \in {"person", "deep", "squash", "tomap"}
                  THEN BOOLEAN ELSE {FALSE},
     Squash : {FALSE},
     DecodeHook : Hooks(sc),
     Metadata : BOOLEAN,
     TagName : {""},
     MatchName : {"nil"},
     Arch : IF sc = "uint8" THEN {"wrapping", "saturating"} ELSE {"wrapping"}]

NoCall ==
    [input |-> VNil, pre |-> VNil, preMd |-> <<>>, errs |-> <<>>, isNil |-> TRUE,
     log |-> <<>>]

\* a caller about to build the configuration of a scenario of S
InitOf(S) ==
    /\ heap = <<>>
    /\ nss = <<>>
    /\ nsFamily = <<>>
    /\ nsOp = [op |-> "none", target |-> 0]
    /\ phase = "config"
    /\ scen \in S
    /\ cfg \in Configs(scen)
    /\ (cfg.Result # "pointer" =>
            /\ ~cfg.ZeroFields /\ ~cfg.WeaklyTypedInput /\ ~cfg.ErrorUnused
            /\ ~cfg.ErrorUnset /\ cfg.DecodeHook = "none")
    /\ dst \in Priors(scen)
    /\ md = [Keys |-> <<>>, Unused |-> <<>>, Unset |-> <<>>, made |-> FALSE]
    /\ calls = 0
    /\ last = NoCall
    /\ LibIdle

Init == InitOf(Scens)

\* NewDecoder with the defaults and the Metadata lists set up before Result
\* is looked at
NewDecoder_defaultsFirst ==
    /\ phase = "config"
    /\ phase' = IF cfg.Result # "pointer" THEN "rejected" ELSE "ready"
    /\ md' = IF cfg.Metadata THEN [md EXCEPT !.made = TRUE] ELSE md
    /\ cfg' = [cfg EXCEPT
                 !.TagName = IF @ = "" THEN "mapstructure" ELSE @,
                 !.MatchName = IF @ = "nil" THEN "EqualFold" ELSE @]
    /\ UNCHANGED <<nsVars, libVars, scen, dst, calls, last>>

\* NewDecoder(config)
NewDecoder ==
    /\ phase = "config"
    /\ IF cfg.Result # "pointer"
       THEN \* not a pointer, or a pointer whose Elem() is not addressable
            /\ phase' = "rejected"
            /\ UNCHANGED <<cfg, md>>
       ELSE /\ phase' = "ready"
            /\ md' = IF cfg.Metadata THEN [md EXCEPT !.made = TRUE] ELSE md
            /\ cfg' = [cfg EXCEPT
                         !.TagName = IF @ = "" THEN "mapstructure" ELSE @,
                         !.MatchName = IF @ = "nil" THEN "EqualFold" ELSE @]
    /\ UNCHANGED <<nsVars, libVars, scen, dst, calls, last>>

\* the errors as the caller reads them after the call: each member's
\* namespace rendered by Namespace.String(), its kind and its detail
Render(h, errs) ==
    [i \in 1..Len(errs) |->
        [path |-> NsString(h, errs[i].ns), kind |-> errs[i].kind, info |-> errs[i].info]]

\* the state of a Decode call at its start
StartState ==
    [h |-> <<>>, Keys |-> md.Keys, Unused |-> md.Unused, Unset |-> md.Unset,
     log |-> <<>>]

\* Decoder.Decode(input), r being what d.decode(*NewNamespace(), input, ...) did
DecodeReturns(input, r) ==
    /\ dst' = r.v
    /\ md' = [md EXCEPT !.Keys = r.m.Keys, !.Unused = r.m.Unused,
                        !.Unset = r.m.Unset]
    /\ last' = [input |-> input, pre |-> dst, preMd |-> md,
                errs |-> Render(r.m.h, r.e), isNil |-> r.isNil, log |-> r.m.log]

\* Decoder.Decode(input)
Decode ==
    /\ phase \in {"ready", "decoded"}
    /\ calls < MaxCalls
    /\ \E input \in Sources(scen) :
         DecodeReturns(input, decode(cfg, StartState, NilSlice, input, TypeOf(scen), dst))
    /\ phase' = "decoded"
    /\ calls' = calls + 1
    /\ UNCHANGED <<nsVars, libVars, scen, cfg>>

Next ==
    \/ NewDecoder
    \/ Decode

Spec == Init /\ [][Next]_vars

\* the decoder with a record that squashes embedded records as destination
InitSquash == InitOf({"squash"})
SpecSquash == InitSquash /\ [][Next]_vars

\* Decoder.Decode of the map the first call built, by a decoder whose Result
\* is a zero-valued record of the type the map was built from and whose other
\* options, the Metadata collector too, are those of the first
DecodeBack ==
    /\ scen = "tomap"
    /\ phase = "decoded"
    /\ dst.k = "dmap"
    /\ LET r == decode(cfg, StartState, NilSlice, AsSource(dst), last.input.T,
                       Zero(last.input.T))
       IN  /\ dst' = r.v
           /\ md' = [md EXCEPT !.Keys = r.m.Keys, !.Unused = r.m.Unused,
                               !.Unset = r.m.Unset]
           /\ last' = [input |-> AsSource(dst), pre |-> Zero(last.input.T),
                       preMd |-> md, errs |-> Render(r.m.h, r.e), isNil |-> r.isNil,
                       log |-> r.m.log, first |-> last]
    /\ phase' = "back"
    /\ UNCHANGED <<nsVars, libVars, scen, cfg, calls>>

NextRoundTrip ==
    \/ NewDecoder
    \/ Decode
    \/ DecodeBack

\* a record decoded into a map[string]interface{} and the map decoded back
InitRoundTrip == InitOf({"tomap"})
SpecRoundTrip == InitRoundTrip /\ [][NextRoundTrip]_vars

\* number of Decode calls that share one Metadata collector
MaxShared == 3

\* the configurations built around the shared collector
SharedConfigs ==
    {c \in Configs("shared") : ~c.ZeroFields /\ ~c.WeaklyTypedInput}

\* The caller fills in another DecoderConfig whose Metadata, when set, is the
\* collector of the calls before, and whose Result is the same destination.
Reuse ==
    /\ scen = "shared"
    /\ phase \in {"decoded", "rejected"}
    /\ calls < MaxShared
    /\ cfg' \in SharedConfigs
    /\ cfg'.Result # "pointer" => ~cfg'.ErrorUnused
    /\ phase' = "config"
    /\ UNCHANGED <<nsVars, libVars, scen, dst, md, calls, last>>

\* Decoder.Decode(input), on a collector that earlier calls may have filled
DecodeShared ==
    /\ scen = "shared"
    /\ phase \in {"ready", "decoded"}
    /\ calls < MaxShared
    /\ \E input \in Sources(scen) :
         DecodeReturns(input, decode(cfg, StartState, NilSlice, input, TypeOf(scen), dst))
    /\ phase' = "decoded"
    /\ calls' = calls + 1
    /\ UNCHANGED <<nsVars, libVars, scen, cfg>>

NextShared ==
    \/ NewDecoder
    \/ DecodeShared
    \/ Reuse

\* decoders built one after the other around one Metadata collector
InitShared == InitOf({"shared"}) /\ cfg \in SharedConfigs
SpecShared == InitShared /\ [][NextShared]_vars

\* a sequence of maps decoded into a map[string]int
InitMerge == InitOf({"merge"})
SpecMerge == InitMerge /\ [][Next]_vars

\* a sequence decoded into an array of two integers
InitArray == InitOf({"array"})
SpecArray == InitArray /\ [][Next]_vars

\* a map whose keys come in any order, with keys that differ in case only,
\* decoded into a Person
InitFold == InitOf({"fold"})
SpecFold == InitFold /\ [][Next]_vars

\* Two Decoders, each made by NewDecoder from a DecoderConfig of its own, each
\* running Decode(input) on a goroutine of its own.  In this specification
\* cfg, dst, md and last hold one value per instance, and heap is the memory
\* the two goroutines allocate the arrays of their namespaces from.  A step
\* of an instance is a stage of decodeStructFromMap: the entry up to the
\* second loop, one turn of that loop, or the rest up to the return.
Instances == {1, 2}

\* the mutable state an instance reaches through d.config kept in one place,
\* that of the first instance, as a variable of the package would be
Collector_global(i) == 1

\* d.config.Metadata of instance i: Decoder holds nothing but the config it
\* was made from
Collector(i) == i

\* the configurations and the inputs of the two instances
ConcurrentConfigs ==
    {c \in Configs("shared") :
        c.Result = "pointer" /\ ~c.ZeroFields /\ ~c.WeaklyTypedInput}

ConcurrentSources ==
    {VMap(<<Entry("Name", VStr("x")), Entry("Age", VInt(1))>>),
     VMap(<<Entry("name", VStr("y")), Entry("extra", VInt(1))>>),
     VMap(<<Entry("Age", VStr("bad")), Entry("Emails", VSlice(<<VStr("a"), VInt(1)>>))>>),
     VMap(<<Entry("Name", VInt(1)), Entry("Age", VStr("bad"))>>)}

\* the state a step of instance i reads: the memory, and the lists of the
\* collector its config points to
StepState(i) ==
    [h |-> heap, Keys |-> md[Collector(i)].Keys, Unused |-> md[Collector(i)].Unused,
     Unset |-> md[Collector(i)].Unset, log |-> <<>>]

\* decodeStructFromMap of instance i: what its first loop collects
FieldsOf(i) ==
    CollectFields(cfg[i], PersonT, last[i].pre, <<<<>>>>,
                  [fields |-> <<>>, remain |-> <<>>, squashErr |-> <<>>])

\* what a step of instance i that reached st writes: the memory, the lists
\* of its collector, the fields of its destination
StepWrites(i, st) ==
    /\ heap' = st.m.h
    /\ md' = [md EXCEPT ![Collector(i)] =
                [@ EXCEPT !.Keys = st.m.Keys, !.Unused = st.m.Unused,
                          !.Unset = st.m.Unset]]
    /\ dst' = [dst EXCEPT ![i] = st.v]

\* Decode(input) of instance i, up to the second loop of decodeStructFromMap
Begin(i) ==
    /\ scen = "concurrent"
    /\ last[i].pc = 0
    /\ LET st == StructStart(last[i].input, dst[i],
                             SquashErrors(StepState(i), NilSlice, FieldsOf(i).squashErr))
       IN  /\ StepWrites(i, st)
           /\ last' = [last EXCEPT ![i] = [@ EXCEPT !.pc = 1, !.st = st]]
    /\ UNCHANGED <<nss, nsFamily, nsOp, libVars, phase, scen, cfg, calls>>

\* one turn of the second loop of decodeStructFromMap of instance i
FieldStep(i) ==
    /\ scen = "concurrent"
    /\ last[i].pc \in 1..Len(FieldsOf(i).fields)
    /\ LET fr == FieldsOf(i).fields[last[i].pc]
           st == StructField(cfg[i], NilSlice, last[i].input, fr,
                             [last[i].st EXCEPT !.m = StepState(i)],
                             Lookup(last[i].input, FieldName(fr.f)))
       IN  /\ StepWrites(i, st)
           /\ last' = [last EXCEPT ![i] = [@ EXCEPT !.pc = @ + 1, !.st = st]]
    /\ UNCHANGED <<nss, nsFamily, nsOp, libVars, phase, scen, cfg, calls>>

\* decodeStructFromMap of instance i after its second loop, and the return
\* of decode and of Decode
End(i) ==
    /\ scen = "concurrent"
    /\ last[i].pc = Len(FieldsOf(i).fields) + 1
    /\ LET r == Finish(cfg[i], NilSlice,
                    StructFinish(cfg[i], NilSlice, last[i].input,
                        StructRemain(cfg[i], NilSlice, last[i].input, FieldsOf(i).remain,
                                     [last[i].st EXCEPT !.m = StepState(i)])))
       IN  /\ StepWrites(i, r)
           /\ last' = [last EXCEPT ![i] =
                         [@ EXCEPT !.pc = -1, !.errs = r.e, !.isNil = r.isNil]]
    /\ calls' = calls + 1
    /\ UNCHANGED <<nss, nsFamily, nsOp, libVars, phase, scen, cfg>>

NextConcurrent ==
    \/ \E i \in Instances : Begin(i)
    \/ \E i \in Instances : FieldStep(i)
    \/ \E i \in Instances : End(i)

\* two decoders made, each about to run Decode on an input of its own
InitConcurrent ==
    /\ heap = <<>>
    /\ nss = <<>>
    /\ nsFamily = <<>>
    /\ nsOp = [op |-> "none", target |-> 0]
    /\ LibIdle
    /\ phase = "ready"
    /\ scen = "concurrent"
    /\ calls = 0
    /\ cfg \in [Instances -> ConcurrentConfigs]
    /\ dst \in [Instances -> Priors("person")]
    /\ md = [i \in Instances |->
                [Keys |-> <<>>, Unused |-> <<>>, Unset |-> <<>>, made |-> TRUE]]
    /\ \E inputs \in [Instances -> ConcurrentSources] :
          last = [i \in Instances |->
                    [input |-> inputs[i], pre |-> dst[i], pc |-> 0, st |-> <<>>,
                     errs |-> <<>>, isNil |-> TRUE]]

SpecConcurrent == InitConcurrent /\ [][NextConcurrent]_vars

\* the decoder with records that hold pointers as destination
InitPointer == InitOf({"nptr", "holder"})
SpecPointer == InitPointer /\ [][Next]_vars

-----------------------------------------------------------------------------
(***************************************************************************)
(* Composed decode hooks (src/decode_hooks.go).  A DecodeHookFunc takes    *)
(* the kind of the data, the kind of the destination and the data; it      *)
(* returns the data to decode from, or an error.  The hooks composed here  *)
(* are those of the tests of the composition functions.                    *)
(***************************************************************************)
\* number of hooks given to a composition function
MaxHooks == 3

\* the hooks of the tests: the ones that append "foo" and "bar" to a string,
\* the one that answers 42, the one that hands the data on, the two that fail
HookFuncs == {"foo", "bar", "fortyTwo", "same", "failF1", "failF2"}

HookOk(v) == [ok |-> TRUE, v |-> v, msg |-> ""]
HookFail(msg) == [ok |-> FALSE, v |-> VNil, msg |-> msg]

\* f1(f, t, data) for one of the hooks
CallHook(fn, f, t, data) ==
    CASE fn = "foo" -> IF f = "string" THEN HookOk(VStr(data.s \o "foo")) ELSE HookOk(data)
      [] fn = "bar" -> IF f = "string" THEN HookOk(VStr(data.s \o "bar")) ELSE HookOk(data)
      [] fn = "fortyTwo" -> HookOk(VInt(42))
      [] fn = "same" -> HookOk(data)
      [] fn = "failF1" -> HookFail("f1 error")
      [] OTHER -> HookFail("f2 error")

\* the record of one call of a hook
HookCalled(fn, f, t, data) == [fn |-> fn, f |-> f, t |-> t, data |-> data]

RECURSIVE ComposeLoop(_, _, _, _, _)
\* the body of the loop handing the next hook the kind the first hook got
ComposeStep_kindKept(fs, f, t, log, r) ==
    IF ~r.ok THEN [ok |-> FALSE, v |-> VNil, msg |-> r.msg, log |-> log]
    ELSE ComposeLoop(fs, f, t, r.v, log)

\* ComposeDecodeHookFunc: the body of the loop after f1, called with the
\* kind f, answered r; f = getKind(reflect.ValueOf(data))
ComposeStep(fs, f, t, log, r) ==
    IF ~r.ok THEN [ok |-> FALSE, v |-> VNil, msg |-> r.msg, log |-> log]
    ELSE ComposeLoop(fs, getKind(r.v), t, r.v, log)

\* ComposeDecodeHookFunc: the loop over the hooks left
ComposeLoop(fs, f, t, data, log) ==
    IF fs = <<>> THEN [ok |-> TRUE, v |-> data, msg |-> "", log |-> log]
    ELSE ComposeStep(Tail(fs), f, t, Append(log, HookCalled(Head(fs), f, t, data)),
                     CallHook(Head(fs), f, t, data))

\* ComposeDecodeHookFunc(fs...)(f, t, data)
ComposeDecodeHookFunc(fs, f, t, data) == ComposeLoop(fs, f, t, data, <<>>)

RECURSIVE OrComposeLoop(_, _, _, _, _, _)
\* the body of the loop putting the newest message first
OrComposeStep_newestFirst(fs, f, t, data, st, r) ==
    IF r.ok THEN [ok |-> TRUE, v |-> r.v, msg |-> "", log |-> st.log]
    ELSE OrComposeLoop(fs, f, t, data, st.log, r.msg \o "\n" \o st.allErrs)

\* OrComposeDecodeHookFunc: the body of the loop after a hook answered r
OrComposeStep(fs, f, t, data, st, r) ==
    IF r.ok THEN [ok |-> TRUE, v |-> r.v, msg |-> "", log |-> st.log]
    ELSE OrComposeLoop(fs, f, t, data, st.log, st.allErrs \o r.msg \o "\n")

\* OrComposeDecodeHookFunc: the loop over the hooks left
OrComposeLoop(fs, f, t, data, log, allErrs) ==
    IF fs = <<>> THEN [ok |-> FALSE, v |-> VNil, msg |-> allErrs, log |-> log]
    ELSE OrComposeStep(Tail(fs), f, t, data,
                       [log |-> Append(log, HookCalled(Head(fs), f, t, data)),
                        allErrs |-> allErrs],
                       CallHook(Head(fs), f, t, data))

\* OrComposeDecodeHookFunc(fs...)(f, t, data)
OrComposeDecodeHookFunc(fs, f, t, data) == OrComposeLoop(fs, f, t, data, <<>>, "")

\* the hook lists, the data and the destination kinds of the calls
HookLists == UNION {[1..n -> HookFuncs] : n \in 0..MaxHooks}
HookData == {VStr(""), VStr("a"), VInt(1), VBool(TRUE)}
HookTargets == {"string", "slice"}

InitHooks ==
    /\ heap = <<>>
    /\ nss = <<>>
    /\ nsFamily = <<>>
    /\ nsOp = [op |-> "none", target |-> 0]
    /\ DecIdle
    /\ LibIdle

\* what a call of the composed hook is remembered by
HookReturns(op, fs, t, data, r) ==
    hookCall' = [op |-> op, fs |-> fs, f |-> getKind(data), t |-> t, data |-> data,
                 ok |-> r.ok, v |-> r.v, msg |-> r.msg, log |-> r.log]

\* DecodeHookExec(ComposeDecodeHookFunc(fs...), from, to); a behaviour holds
\* one call of a composed hook
CallComposed ==
    /\ hookCall.op = "none"
    /\ \E fs \in HookLists, data \in HookData, t \in HookTargets :
          HookReturns("Compose", fs, t, data,
                      ComposeDecodeHookFunc(fs, getKind(data), t, data))
    /\ UNCHANGED <<nsVars, decVars, agg>>

\* DecodeHookExec(OrComposeDecodeHookFunc(fs...), from, to)
CallOrComposed ==
    /\ hookCall.op = "none"
    /\ \E fs \in HookLists, data \in HookData, t \in HookTargets :
          HookReturns("OrCompose", fs, t, data,
                      OrComposeDecodeHookFunc(fs, getKind(data), t, data))
    /\ UNCHANGED <<nsVars, decVars, agg>>

NextHooks ==
    \/ CallComposed
    \/ CallOrComposed

SpecHooks == InitHooks /\ [][NextHooks]_vars

-----------------------------------------------------------------------------
(***************************************************************************)
(* DecodingErrors built by hand (src/error.go): a program that makes       *)
(* aggregates, appends errors to them and moves their members below or     *)
(* above a namespace.  A member is a DecodingError: its namespace (a slice *)
(* header into the heap) and its message.                                  *)
(***************************************************************************)
\* number of *DecodingErrors objects, and of calls made on them
MaxAggs == 2
MaxAggOps == 5

\* the errors handed to Append: nil, a nil *DecodingErrors, an error of
\* another type, a *DecodingError with the namespace [key], an aggregate
ErrNil == [t |-> "nil"]
ErrNilPtr == [t |-> "nilptr"]
ErrOther(msg) == [t |-> "other", msg |-> msg]
ErrLocated(key) == [t |-> "located", key |-> key]
ErrAggregate(j) == [t |-> "aggregate", j |-> j]

RECURSIVE AppendKeys(_, _, _)
\* Namespace.AppendKey(keys...)
AppendKeys(h, ns, keys) ==
    IF keys = <<>> THEN [h |-> h, s |-> ns]
    ELSE AppendKeys(AppendItem(h, ns, NamespaceKey(Head(keys))).h,
                    AppendItem(h, ns, NamespaceKey(Head(keys))).s, Tail(keys))

\* what Append adds for an error that is neither nil nor an aggregate:
\* *AsDecodingError(err), r being the namespace the error carries
AsDecodingError(err, r) ==
    [h |-> r.h,
     ms |-> <<[ns |-> r.s, msg |-> IF err.t = "located" THEN "bad " \o err.key
                                   ELSE err.msg]>>]

\* what Append adds for an aggregate handed to it as one error
AsMembers_nested(h, objs, err) ==
    CASE err.t \in {"nil", "nilptr"} -> [h |-> h, ms |-> <<>>]
      [] err.t = "aggregate" -> [h |-> h, ms |-> <<[ns |-> NilSlice, msg |-> "aggregate"]>>]
      [] err.t = "located" ->
            AsDecodingError(err, AppendKeys(h, NilSlice, <<err.key>>))
      [] OTHER -> AsDecodingError(err, [h |-> h, s |-> NilSlice])

\* DecodingErrors.Append: the members the switch on err adds (none for nil
\* and for a nil pointer)
AsMembers(h, objs, err) ==
    CASE err.t \in {"nil", "nilptr"} -> [h |-> h, ms |-> <<>>]
      [] err.t = "aggregate" -> [h |-> h, ms |-> objs[err.j]]
      [] err.t = "located" ->
            AsDecodingError(err, AppendKeys(h, NilSlice, <<err.key>>))
      [] OTHER -> AsDecodingError(err, [h |-> h, s |-> NilSlice])

\* the number of leaf errors in an error handed to Append
Leaves(err) ==
    CASE err.t \in {"nil", "nilptr"} -> 0
      [] err.t = "aggregate" -> agg.leaves[err.j]
      [] OTHER -> 1

RECURSIVE PrependAll(_, _, _, _)
\* DecodingErrors.PrependNamespace: errors[i] = *err.PrependNamespace(ns)
PrependOne(errors, i, p, r) ==
    PrependAll(r.h, [errors EXCEPT ![i].ns = r.s], i + 1, p)

\* DecodingErrors.PrependNamespace: the loop from member i on
PrependAll(h, errors, i, p) ==
    IF i > Len(errors) THEN [h |-> h, errors |-> errors]
    ELSE PrependOne(errors, i, p, PrependNamespace(h, errors[i].ns, p))

RECURSIVE AppendAll(_, _, _, _)
\* DecodingErrors.AppendNamespace: errors[i] = *err.AppendNamespace(ns)
AppendOne(errors, i, p, r) ==
    AppendAll(r.h, [errors EXCEPT ![i].ns = r.s], i + 1, p)

\* DecodingErrors.AppendNamespace: the loop from member i on
AppendAll(h, errors, i, p) ==
    IF i > Len(errors) THEN [h |-> h, errors |-> errors]
    ELSE AppendOne(errors, i, p, AppendNamespace(h, errors[i].ns, p))

\* the errors and the namespaces the program passes
ErrArgs(n) ==
    {ErrNil, ErrNilPtr, ErrOther("boom"), ErrLocated("x"), ErrLocated("y")}
        \cup {ErrAggregate(j) : j \in 1..n}
NsArgs == {<<"a">>, <<"a", "b">>, <<"a", "b", "c">>}

NoAggOp == [name |-> "none", target |-> 0]

InitErrors ==
    /\ heap = <<>>
    /\ nss = <<>>
    /\ nsFamily = <<>>
    /\ nsOp = [op |-> "none", target |-> 0]
    /\ DecIdle
    /\ hookCall = [op |-> "none"]
    /\ agg = [objs |-> <<>>, leaves |-> <<>>, ops |-> 0, op |-> NoAggOp]

\* NewDecodingErrors()
AggNew ==
    /\ agg.ops < MaxAggOps
    /\ Len(agg.objs) < MaxAggs
    /\ agg' = [objs |-> Append(agg.objs, <<>>), leaves |-> Append(agg.leaves, 0),
               ops |-> agg.ops + 1,
               op |-> [name |-> "New", target |-> Len(agg.objs) + 1]]
    /\ UNCHANGED <<nsVars, decVars, hookCall>>

\* e.Append(err), r being the members the switch adds
AggAppended(t, err, r) ==
    /\ heap' = r.h
    /\ agg' = [objs |-> [agg.objs EXCEPT ![t] = ErrorsAppend(@, r.ms)],
               leaves |-> [agg.leaves EXCEPT ![t] = @ + Leaves(err)],
               ops |-> agg.ops + 1,
               op |-> [name |-> "Append", target |-> t, err |-> err]]

\* e.Append(err)
AggAppend ==
    /\ agg.ops < MaxAggOps
    /\ \E t \in 1..Len(agg.objs), err \in ErrArgs(Len(agg.objs)) :
          AggAppended(t, err, AsMembers(heap, agg.objs, err))
    /\ UNCHANGED <<nss, nsFamily, nsOp, decVars, hookCall>>

\* e.PrependNamespace(p) or e.AppendNamespace(p) done: p is the argument,
\* built from keys, r the heap and the members afterwards
AggMoved(name, t, keys, p, r) ==
    /\ heap' = r.h
    /\ agg' = [agg EXCEPT !.objs[t] = r.errors, !.ops = @ + 1,
                          !.op = [name |-> name, target |-> t, keys |-> keys,
                                  p |-> p]]

\* e.PrependNamespace(*NewNamespace().AppendKey(keys...))
AggPrependNamespace ==
    /\ agg.ops < MaxAggOps
    /\ \E t \in 1..Len(agg.objs), keys \in NsArgs :
          AggMoved("PrependNamespace", t, keys, AppendKeys(heap, NilSlice, keys).s,
                   PrependAll(AppendKeys(heap, NilSlice, keys).h, agg.objs[t], 1,
                              AppendKeys(heap, NilSlice, keys).s))
    /\ UNCHANGED <<nss, nsFamily, nsOp, decVars, hookCall>>

\* e.AppendNamespace(*NewNamespace().AppendKey(keys...))
AggAppendNamespace ==
    /\ agg.ops < MaxAggOps
    /\ \E t \in 1..Len(agg.objs), keys \in NsArgs :
          AggMoved("AppendNamespace", t, keys, AppendKeys(heap, NilSlice, keys).s,
                   AppendAll(AppendKeys(heap, NilSlice, keys).h, agg.objs[t], 1,
                             AppendKeys(heap, NilSlice, keys).s))
    /\ UNCHANGED <<nss, nsFamily, nsOp, decVars, hookCall>>

NextErrors ==
    \/ AggNew
    \/ AggAppend
    \/ AggPrependNamespace
    \/ AggAppendNamespace

SpecErrors == InitErrors /\ [][NextErrors]_vars

-----------------------------------------------------------------------------
(***************************************************************************)
(* DecodingError (src/error.go): one error with its kind, its header, the  *)
(* source and destination values it was raised for and the error it wraps. *)
(* In this specification agg holds the *DecodingError the program works    *)
(* on: [e, by, arg, recv, ops], e being the object, by the call that        *)
(* returned it, arg that call's argument and recv its receiver before the  *)
(* call.                                                                    *)
(***************************************************************************)
\* number of calls made on one DecodingError
MaxErrOps == 4

\* the kinds of the model; the zero value of DecodingErrorKind is the first
\* constant of its iota block
DecodingErrorKinds ==
    {"DecodingErrorUnsupportedType", "DecodingErrorUnexpectedType",
     "DecodingErrorIncompatibleSize", "DecodingErrorGeneric", "DecodingErrorCustom"}

ZeroKind == "DecodingErrorUnsupportedType"

\* the values handed to SetSrcValue and SetDstValue, and nil
ErrValues == {"a", "b"}
NilValue == "nil"

\* &DecodingError{}: every field at its zero value
ZeroDecodingError ==
    [kind |-> ZeroKind, header |-> "", srcValue |-> NilValue, dstValue |-> NilValue,
     error |-> "nil"]

\* NewDecodingError(kind)
NewDecodingError(kind) ==
    [ZeroDecodingError EXCEPT !.kind = kind, !.error = kind]

\* e.Wrap(err): return &DecodingError{error: err}
Wrap(e, err) == [ZeroDecodingError EXCEPT !.error = err]

\* e.Format(format, args...): return &DecodingError{error: fmt.Errorf(...)}
Format(e, text) == [ZeroDecodingError EXCEPT !.error = text]

\* AsDecodingError(err) for an error that is not nil: err is [t, e] with e a
\* *DecodingError when t is "DecodingError", and the text of an error of
\* another type otherwise
AsDecodingErrorPtr(err) ==
    IF err.t = "DecodingError" THEN err.e
    ELSE Wrap(NewDecodingError("DecodingErrorGeneric"), err.e)

\* e.SetSrcValue(value)
SetSrcValue(e, value) == [e EXCEPT !.srcValue = value]

\* e.SetDstValue(value): e.srcValue = value
SetDstValue(e, value) == [e EXCEPT !.srcValue = value]

GetKind(e) == e.kind
GetSrcValue(e) == e.srcValue
GetDstValue(e) == e.dstValue

\* the call "by" with the argument arg returned e, its receiver being agg.e
ErrReturned(by, arg, e) ==
    /\ agg.ops < MaxErrOps
    /\ agg' = [e |-> e, by |-> by, arg |-> arg, recv |-> agg.e, recvBy |-> agg.by,
               ops |-> agg.ops + 1]
    /\ UNCHANGED <<nsVars, decVars, hookCall>>

InitDecodingError ==
    /\ heap = <<>>
    /\ nss = <<>>
    /\ nsFamily = <<>>
    /\ nsOp = [op |-> "none", target |-> 0]
    /\ DecIdle
    /\ hookCall = [op |-> "none"]
    /\ agg = [e |-> ZeroDecodingError, by |-> "none", arg |-> "", recv |-> ZeroDecodingError,
              recvBy |-> "none", ops |-> 0]

\* e := NewDecodingError(kind)
ErrNew ==
    \E kind \in DecodingErrorKinds :
        ErrReturned("NewDecodingError", kind, NewDecodingError(kind))

\* e = e.Wrap(err)
ErrWrap ==
    /\ agg.by # "none"
    /\ ErrReturned("Wrap", "boom", Wrap(agg.e, "boom"))

\* e = e.Format(format, args...)
ErrFormat ==
    /\ agg.by # "none"
    /\ ErrReturned("Format", "bad value", Format(agg.e, "bad value"))

\* e = AsDecodingError(err), err being e itself or an error of another type
ErrAs ==
    /\ agg.by # "none"
    /\ \E err \in {[t |-> "DecodingError", e |-> agg.e], [t |-> "other", e |-> "boom"]} :
          ErrReturned("AsDecodingError", err.t, AsDecodingErrorPtr(err))

\* e.SetSrcValue(value)
ErrSetSrcValue ==
    /\ agg.by # "none"
    /\ \E value \in ErrValues :
          ErrReturned("SetSrcValue", value, SetSrcValue(agg.e, value))

\* e.SetDstValue(value)
ErrSetDstValue ==
    /\ agg.by # "none"
    /\ \E value \in ErrValues :
          ErrReturned("SetDstValue", value, SetDstValue(agg.e, value))

NextDecodingError ==
    \/ ErrNew
    \/ ErrWrap
    \/ ErrFormat
    \/ ErrAs
    \/ ErrSetSrcValue
    \/ ErrSetDstValue

SpecDecodingError == InitDecodingError /\ [][NextDecodingError]_vars

-----------------------------------------------------------------------------
(***************************************************************************)
(* Claims about Namespace.                                                 *)
(***************************************************************************)

\* The mutating methods the claim C2 names.
NsMutators == {"Append", "AppendNamespace", "PrependNamespace", "UseFldTag"}

\* C2: a namespace obtained with Duplicate() is independent of its original:
\* a mutating method called on one member of a Duplicate() family leaves
\* every other member of that family (the original and the other duplicates)
\* with exactly the items, flags and rendering it had before the call.
C2_DuplicateIndependent ==
    [][ nsOp'.op \in NsMutators =>
          \A i \in 1..Len(nss) :
              (i # nsOp'.target /\ nsFamily[i] = nsFamily[nsOp'.target]) =>
                  /\ Items(heap', nss'[i]) = Items(heap, nss[i])
                  /\ NsString(heap', nss'[i]) = NsString(heap, nss[i]) ]_vars

-----------------------------------------------------------------------------
(***************************************************************************)
(* Claims about the decoder.  They are stated over the last Decode call:   *)
(* last.input is what was given, last.pre the destination before the call, *)
(* dst the destination after it, last.errs the members of the error        *)
(* returned (<<>>: nil) and md the Metadata after it.                      *)
(***************************************************************************)
Decoded == phase = "decoded"

ScalarKinds == {"bool", "string", "int", "uint", "float"}

\* the result of converting a non-nil scalar source for a scalar destination
Leaf(c, data, T) ==
    CASE T.k = "bool" -> decodeBool(c, data, T, Zero(T))
      [] T.k = "string" -> decodeString(c, data, T, Zero(T))
      [] T.k = "int" -> decodeInt(c, data, T, Zero(T))
      [] T.k = "uint" -> decodeUint(c, data, T, Zero(T))
      [] OTHER -> decodeFloat(c, data, T, Zero(T))

\* the source entry a record binds to a field: the key equal to the field's
\* name, else the first key that matches it under MatchName; 0 when none
Bound(data, fieldName) ==
    LET exact == {i \in 1..Len(data.m) : data.m[i].key = fieldName}
        folded == {i \in 1..Len(data.m) : EqualFold(data.m[i].key, fieldName)}
        S == IF exact # {} THEN exact ELSE folded
    IN  IF S = {} THEN 0 ELSE CHOOSE i \in S : \A i2 \in S : i <= i2

\* the source entries of a record that take part in the binding of its
\* fields: the entries its fields are bound to and, when the record has a
\* field tagged "remain", the others too, which that field takes
BoundEntries(data, T) ==
    IF \E i \in 1..Len(T.f) : T.f[i].opt = "remain" THEN 1..Len(data.m)
    ELSE {Bound(data, FieldName(T.f[i])) : i \in 1..Len(T.f)} \ {0}

RECURSIVE Flatten(_)
\* the concatenation of a sequence of sequences
Flatten(q) == IF q = <<>> THEN <<>> ELSE Head(q) \o Flatten(Tail(q))

\* the path of a child: a field below a record, an element, a map entry
FldPath(prefix, name) == IF prefix = "" THEN name ELSE prefix \o "." \o name
IdxPath(prefix, i) == prefix \o "[" \o ToString(i) \o "]"
KeyPath(prefix, key) == prefix \o "[" \o key \o "]"

RECURSIVE InvalidPaths(_, _, _, _, _)
\* The paths of the nodes of the input that are invalid on their own,
\* without a hook, in the order the decoder visits them: a scalar that does
\* not convert (for an interface{} destination that holds a value: to the
\* type of that value), a container bound to a source of the wrong shape, a
\* record with unused keys under ErrorUnused or with unset fields under
\* ErrorUnset.  out is the destination before the call, at the path.
InvalidPaths(c, data, T, out, at) ==
    IF data.k \in {"nil", "nilptr"} THEN <<>>
    ELSE CASE T.k \in ScalarKinds ->
                IF Leaf(c, data, T).kind = "" THEN <<>> ELSE <<at>>
           [] T.k = "iface" ->
                IF out.k = "nil" THEN <<>>
                ELSE InvalidPaths(c, data, TypeOfVal(out), out, at)
           [] T.k = "ptr" ->
                InvalidPaths(c, data, T.e, IF out.k = "ptr" THEN out.p ELSE Zero(T.e), at)
           [] T.k = "slice" ->
                IF data.k = "slice"
                THEN Flatten([i \in 1..Len(data.l) |->
                        InvalidPaths(c, data.l[i], T.e, Zero(T.e), IdxPath(at, i - 1))])
                ELSE IF data.k = "nilslice" THEN <<>>
                ELSE IF ~c.WeaklyTypedInput THEN <<at>>
                ELSE IF data.k = "map" /\ Len(data.m) = 0 THEN <<>>
                ELSE IF data.k = "string" /\ T.e = TUint(8) THEN <<>>
                ELSE InvalidPaths(c, data, T.e, Zero(T.e), IdxPath(at, 0))
           [] T.k = "map" ->
                IF data.k = "map"
                THEN Flatten([i \in 1..Len(data.m) |->
                        InvalidPaths(c, data.m[i].val, T.e, Zero(T.e),
                                     KeyPath(at, data.m[i].key))])
                ELSE IF data.k = "slice" /\ c.WeaklyTypedInput /\ Len(data.l) = 0
                THEN <<>>
                ELSE <<at>>
           [] T.k = "struct" ->
                IF data.k # "map" THEN <<at>>
                ELSE LET b(i) == IF T.f[i].opt = "remain" THEN 0
                                 ELSE Bound(data, FieldName(T.f[i]))
                         used == BoundEntries(data, T)
                     IN  Flatten([i \in 1..Len(T.f) |->
                                    IF b(i) = 0 THEN <<>>
                                    ELSE InvalidPaths(c, data.m[b(i)].val, T.f[i].ty,
                                            out.fv[i], FldPath(at, T.f[i].name))])
                         \o (IF c.ErrorUnused /\ used # 1..Len(data.m)
                             THEN <<at>> ELSE <<>>)
                         \o (IF c.ErrorUnset /\ \E i \in 1..Len(T.f) :
                                                b(i) = 0 /\ T.f[i].opt # "remain"
                             THEN <<at>> ELSE <<>>)
           [] OTHER -> <<at>>

\* the number of invalid nodes of the last input
InvalidNodes == Len(InvalidPaths(cfg, last.input, TypeOf(scen), last.pre, ""))

\* every scalar field of a record that is bound to a valid source holds the
\* converted value after the call
ValidFieldsDecoded(c, data, T, v) ==
    \A i \in 1..Len(T.f) :
        LET b == Bound(data, FieldName(T.f[i]))
        IN  (/\ T.f[i].ty.k \in ScalarKinds
             /\ b # 0
             /\ data.m[b].val.k \notin {"nil", "nilptr"}
             /\ Leaf(c, data.m[b].val, T.f[i].ty).kind = "")
            => v.fv[i] = Leaf(c, data.m[b].val, T.f[i].ty).v

\* every element of a []string field bound to a slice source holds the
\* converted value after the call when its source element is valid
ValidElemsDecoded(c, data, T, v) ==
    \A i \in 1..Len(T.f) :
        LET b == Bound(data, FieldName(T.f[i]))
        IN  (T.f[i].ty.k = "slice" /\ b # 0 /\ data.m[b].val.k = "slice") =>
                \A j \in 1..Len(data.m[b].val.l) :
                    LET el == data.m[b].val.l[j]
                    IN  (el.k # "nil" /\ Leaf(c, el, T.f[i].ty.e).kind = "")
                            => v.fv[i].l[j] = Leaf(c, el, T.f[i].ty.e).v

\* C1: a Decode of an input with k independently invalid nodes returns an
\* aggregate of exactly k members, and the valid sibling fields and elements
\* of the record are decoded all the same.
C1_OneMemberPerInvalidNode ==
    (Decoded /\ cfg.DecodeHook = "none") =>
        /\ Len(last.errs) = InvalidNodes
        /\ last.input.k = "map" =>
              /\ ValidFieldsDecoded(cfg, last.input, TypeOf(scen), dst)
              /\ ValidElemsDecoded(cfg, last.input, TypeOf(scen), dst)

\* C1 witness: four invalid nodes (Name, Age, Emails[1], Emails[2]) next to a
\* valid one (Emails[0]): four members returned and Emails[0] decoded
C1_Witness ==
    /\ Decoded /\ scen = "person" /\ ~cfg.WeaklyTypedInput
    /\ ~cfg.ErrorUnused /\ ~cfg.ErrorUnset
    /\ last.input = VMap(<<Entry("Name", VInt(1)), Entry("Age", VStr("bad")),
                           Entry("Emails", VSlice(<<VStr("a"), VInt(1), VInt(2)>>))>>)
    /\ Len(last.errs) = 4
    /\ dst.fv[3].l[1] = VStr("a")

\* C3: every member of the error returned carries the full path of the node
\* it is about, from the root to the node: A.B.C.D for nested record fields,
\* Emails[1] for an element.
C3_MembersCarryFullPath ==
    (Decoded /\ cfg.DecodeHook = "none") =>
        [i \in 1..Len(last.errs) |-> last.errs[i].path]
            = InvalidPaths(cfg, last.input, TypeOf(scen), last.pre, "")

\* C4: when Result is not a pointer, or is a nil pointer, NewDecoder fails:
\* no decoder is returned, so nothing is ever decoded, and the configuration,
\* the destination and the Metadata collector stay exactly as they were.
C4_ConfigErrorIsAtomic ==
    [][cfg.Result # "pointer" =>
          /\ phase' = "rejected"
          /\ cfg' = cfg /\ dst' = dst /\ md' = md
          /\ calls' = 0 /\ last' = NoCall]_vars

\* C4 witness: NewDecoder has refused a populated destination with a Metadata
\* collector attached
C4_Witness ==
    /\ phase = "rejected" /\ cfg.Metadata
    /\ dst # Zero(TypeOf(scen))
    /\ ~md.made /\ cfg.TagName = "" /\ calls = 0

\* the paths appended to Metadata.Keys by the last call
NewKeys ==
    {md.Keys[i] : i \in (Len(last.preMd.Keys) + 1)..Len(md.Keys)}

\* the value a map holds under a key, Absent when it holds none
MapGet(v, key) ==
    IF v.k = "dmap" /\ key \in DOMAIN v.d THEN v.d[key] ELSE Absent

\* what C5 says of one node whose source is nil: path is its path, pre and
\* post the destination node before and after the call, ty its type
NilNodeUntouched(path, pre, post, ty) ==
    /\ \A i \in 1..Len(last.errs) : last.errs[i].path # path
    /\ \A i \in 1..Len(last.log) : last.log[i].path # path
    /\ IF cfg.ZeroFields
       THEN post = Zero(ty) /\ (cfg.Metadata /\ path # "" => path \in NewKeys)
       ELSE post = pre /\ path \notin NewKeys

\* C5 for the root and for the fields of the root record
NilFieldsUntouched ==
    /\ last.input.k \in {"nil", "nilptr"} =>
          NilNodeUntouched("", last.pre, dst, TypeOf(scen))
    /\ last.input.k = "map" =>
          \A i \in 1..Len(TypeOf(scen).f) :
              LET f == TypeOf(scen).f[i]
                  b == Bound(last.input, FieldName(f))
              IN  (b # 0 /\ last.input.m[b].val.k \in {"nil", "nilptr"}) =>
                      NilNodeUntouched(f.name, last.pre.fv[i], dst.fv[i], f.ty)

\* C5 for the entries of the map field M of the holder record
NilEntriesUntouched ==
    (scen = "holder" /\ last.input.k = "map") =>
        LET b == Bound(last.input, "M")
        IN  (b # 0 /\ last.input.m[b].val.k = "map") =>
                \A j \in 1..Len(last.input.m[b].val.m) :
                    LET en == last.input.m[b].val.m[j]
                    IN  en.val.k = "nil" =>
                            NilNodeUntouched(KeyPath("M", en.key),
                                MapGet(last.pre.fv[1], en.key),
                                MapGet(dst.fv[1], en.key), TInt(64))

\* C5: a nil source at any node gives no error, calls no hook and goes no
\* further; with ZeroFields off the destination node keeps the value it had
\* and no Keys entry is added for it, with ZeroFields on the destination
\* node is zeroed and its path, when not empty, is appended to Keys.
C5_NilSourceLeavesNode ==
    Decoded => NilFieldsUntouched /\ NilEntriesUntouched

NumericKinds == {"int", "uint", "float"}

\* the scalar bound to the field X of a scalar record, Absent when the input
\* binds none
SourceOfX ==
    IF scen \in ScalarScens /\ last.input.k = "map" /\ Len(last.input.m) = 1
          /\ last.input.m[1].val.k \in ScalarKinds
    THEN last.input.m[1].val ELSE Absent

\* a strict decode, without a hook, of a scalar of one family into a scalar
\* destination of another family
StrictCrossFamily ==
    /\ Decoded /\ ~cfg.WeaklyTypedInput /\ cfg.DecodeHook = "none"
    /\ SourceOfX # Absent
    /\ SourceOfX.k # TypeOf(scen).f[1].ty.k

\* the call failed with one error of the given kind for X and left X as it was
FailedAtX(kind) ==
    /\ Len(last.errs) = 1
    /\ last.errs[1].path = "X" /\ last.errs[1].kind = kind
    /\ dst.fv[1] = last.pre.fv[1]

Converted(v, ty) ==
    CASE ty.k = "int" ->
            VInt(WrapInt(IF v.k = "float" THEN TruncFloat(v.n) ELSE v.n, ty.bits))
      [] ty.k = "uint" ->
            VUint(WrapUint(IF v.k = "float" THEN TruncFloat(v.n) ELSE v.n, ty.bits))
      [] OTHER -> VFloat(v.n * 10)

FreshCollector ==
    /\ Decoded /\ cfg.Metadata
    /\ last.preMd.Keys = <<>> /\ last.preMd.Unused = <<>> /\ last.preMd.Unset = <<>>

NoPathTwice(keys) ==
    \A i, j \in 1..Len(keys) : keys[i] = keys[j] => i = j

\* C7: after one Decode call into a fresh collector no path occurs twice in
\* Keys, and no path of a node that returned an error occurs in Keys.
C7_KeysOncePerDecodedNode ==
    FreshCollector =>
        /\ NoPathTwice(md.Keys)
        /\ \A i \in 1..Len(last.errs) : \A j \in 1..Len(md.Keys) :
              md.Keys[j] # last.errs[i].path

RECURSIVE UnmatchedKeys(_, _, _)
\* The source keys that no field of their record is bound to, each prefixed
\* with the path of its record, for the record at a path and the records
\* nested in its fields.
UnmatchedKeys(data, T, at) ==
    IF T.k # "struct" \/ data.k # "map" THEN {}
    ELSE {FldPath(at, data.m[i].key) : i \in (1..Len(data.m)) \ BoundEntries(data, T)}
         \cup UNION {UnmatchedKeys(data.m[Bound(data, FieldName(T.f[i]))].val,
                                   T.f[i].ty, FldPath(at, T.f[i].name)) :
                        i \in {x \in 1..Len(T.f) : Bound(data, FieldName(T.f[x])) # 0}}

RECURSIVE AssignedPaths(_, _, _, _, _)
\* The paths of the fields, nested ones included, that a source key binds to
\* a valid, non-nil value.
AssignedPaths(c, data, T, out, at) ==
    IF T.k # "struct" \/ data.k # "map" THEN {}
    ELSE UNION {
            LET en == data.m[Bound(data, FieldName(T.f[i]))]
                path == FldPath(at, T.f[i].name)
            IN  IF en.val.k \in {"nil", "nilptr"} THEN {}
                ELSE (IF InvalidPaths(c, en.val, T.f[i].ty, out.fv[i], path) = <<>>
                      THEN {path} ELSE {})
                     \cup AssignedPaths(c, en.val, T.f[i].ty, out.fv[i], path) :
            i \in {x \in 1..Len(T.f) : Bound(data, FieldName(T.f[x])) # 0}}

\* a Decode call of a map into a record that started with an empty collector
RecordIntoFresh ==
    FreshCollector /\ last.input.k = "map" /\ TypeOf(scen).k = "struct"

KeysHaveAssigned ==
    (RecordIntoFresh /\ cfg.DecodeHook = "none") =>
        AssignedPaths(cfg, last.input, TypeOf(scen), last.pre, "")
            \subseteq {md.Keys[i] : i \in 1..Len(md.Keys)}

UnusedIsUnmatched ==
    RecordIntoFresh =>
        {md.Unused[i] : i \in 1..Len(md.Unused)}
            = UnmatchedKeys(last.input, TypeOf(scen), "")

\* C8: after one Decode call of a map into a record with a fresh collector,
\* Keys contains the path of every field that was assigned from a source key
\* and Unused contains exactly the source keys that no field is bound to,
\* each prefixed with the path of its record.
C8_KeysAndUnusedComplete ==
    KeysHaveAssigned /\ UnusedIsUnmatched

RECURSIVE UnusedReports(_, _, _)
\* For the record at a path and the records nested in its fields that are
\* decoded from a map: the report due for each record with source keys that
\* no field is bound to, its path and those keys sorted and joined.
UnusedReports(data, T, at) ==
    IF T.k # "struct" \/ data.k # "map" THEN {}
    ELSE (IF BoundEntries(data, T) = 1..Len(data.m) THEN {}
          ELSE {[path |-> at,
                 info |-> Join(SortStrings({data.m[i].key :
                            i \in (1..Len(data.m)) \ BoundEntries(data, T)}), ", ")]})
         \cup UNION {UnusedReports(data.m[Bound(data, FieldName(T.f[i]))].val,
                                   T.f[i].ty, FldPath(at, T.f[i].name)) :
                        i \in {x \in 1..Len(T.f) : Bound(data, FieldName(T.f[x])) # 0}}

\* the unused-keys errors the last call returned
UnusedKeysErrors == SelectSeq(last.errs, LAMBDA e : e.kind = "unused keys")

\* C9: with ErrorUnused set, decoding a map into a record returns an
\* unused-keys error for a record node exactly when some source key of that
\* node corresponds to no field, once per record node, listing exactly those
\* keys in sorted order.  A key corresponds to the field that is bound to
\* it; in a record with a "remain" field the other keys correspond to that
\* field.
C9_UnusedErrorOncePerRecord ==
    (Decoded /\ cfg.ErrorUnused /\ last.input.k = "map") =>
        /\ {[path |-> UnusedKeysErrors[i].path, info |-> UnusedKeysErrors[i].info] :
                i \in 1..Len(UnusedKeysErrors)}
              = UnusedReports(last.input, TypeOf(scen), "")
        /\ Len(UnusedKeysErrors)
              = Cardinality(UnusedReports(last.input, TypeOf(scen), ""))

\* C9 witness: a record was given the keys "extra" and "name" beside "Name"
\* under ErrorUnused and the call returned the error listing the two
C9_Witness ==
    /\ Decoded /\ cfg.ErrorUnused /\ scen = "person"
    /\ \E i \in 1..Len(last.errs) :
          /\ last.errs[i].kind = "unused keys"
          /\ last.errs[i].path = ""
          /\ last.errs[i].info = "extra, name"

\* the hook calls of the last Decode that the hook refused, and the errors
\* the call returned for them
RefusedCalls == SelectSeq(last.log, LAMBDA l : ~l.ok)
HookErrors == SelectSeq(last.errs, LAMBDA e : e.kind = "generic error")

\* a Decode call with a hook, of a map into the nested record or the holder
Hooked == Decoded /\ cfg.DecodeHook # "none" /\ last.input.k = "map"

\* the hook is called once for a node: no two calls for one path and one
\* destination kind
HookOncePerNode ==
    \A i, j \in 1..Len(last.log) :
        (last.log[i].path = last.log[j].path /\ last.log[i].to = last.log[j].to)
            => i = j

\* every refusal of the hook is reported, in the order of the calls, with the
\* path of the node it was called for
HookErrorsAtNodePath ==
    [i \in 1..Len(HookErrors) |-> HookErrors[i].path]
        = [i \in 1..Len(RefusedCalls) |-> RefusedCalls[i].path]

\* the leaves D and E of the nested record after the call: a leaf the hook
\* refused keeps its value, a string for a leaf that the hook turned into 5
\* gives 5
DeepLeaf(v, i) == v.fv[1].fv[1].fv[1].fv[i]
HookedLeaves ==
    (scen = "deep" /\ Len(last.input.m) = 1 /\ last.input.m[1].val.k = "map"
        /\ last.input.m[1].val.m[1].val.k = "map") =>
        LET src == last.input.m[1].val.m[1].val.m[1].val
        IN  \A i \in 1..2 :
                LET b == Bound(src, IF i = 1 THEN "D" ELSE "E")
                IN  (b # 0 /\ src.m[b].val.k = "string") =>
                        IF cfg.DecodeHook = "rejectString"
                        THEN DeepLeaf(dst, i) = DeepLeaf(last.pre, i)
                        ELSE DeepLeaf(dst, i) = VInt(5)

\* C10: a configured hook is called once for each non-nil node visited; when
\* it returns an error nothing is assigned at the node and the error is
\* reported with the node's path, its siblings being decoded all the same;
\* when it succeeds its return value is what the node is decoded from.
C10_HookOncePerNode ==
    Hooked => HookOncePerNode /\ HookErrorsAtNodePath /\ HookedLeaves


-----------------------------------------------------------------------------
(***************************************************************************)
(* Claims about the composed hooks, stated over the last call.             *)
(***************************************************************************)
\* what the i-th hook called answered
Answer(i) ==
    CallHook(hookCall.log[i].fn, hookCall.log[i].f, hookCall.log[i].t,
             hookCall.log[i].data)

\* the i-th call was made for the i-th hook given, with the destination kind
\* of the composed call
CalledInOrder ==
    \A i \in 1..Len(hookCall.log) :
        /\ i <= Len(hookCall.fs)
        /\ hookCall.log[i].fn = hookCall.fs[i]
        /\ hookCall.log[i].t = hookCall.t

\* the first hook got the data and the kind of the composed call, each later
\* one the output of the hook before it, which succeeded, and the kind of
\* that output
ChainedCalls ==
    \A i \in 1..Len(hookCall.log) :
        IF i = 1
        THEN hookCall.log[1].data = hookCall.data /\ hookCall.log[1].f = hookCall.f
        ELSE /\ Answer(i - 1).ok
             /\ hookCall.log[i].data = Answer(i - 1).v
             /\ hookCall.log[i].f = getKind(Answer(i - 1).v)

\* the composed call returns the last hook's output when every hook was
\* called and the last succeeded, the data when there is no hook, and
\* otherwise the error of the last hook called
ComposedReturn ==
    IF hookCall.fs = <<>>
    THEN hookCall.log = <<>> /\ hookCall.ok /\ hookCall.v = hookCall.data
    ELSE /\ hookCall.log # <<>>
         /\ IF Answer(Len(hookCall.log)).ok
            THEN /\ Len(hookCall.log) = Len(hookCall.fs)
                 /\ hookCall.ok /\ hookCall.v = Answer(Len(hookCall.log)).v
            ELSE ~hookCall.ok /\ hookCall.msg = Answer(Len(hookCall.log)).msg

\* C11: ComposeDecodeHookFunc(f1,...,fn) calls the hooks in argument order,
\* each with the output of the one before it as data and the kind of that
\* output as source kind; it returns fn's output when all succeed (the input
\* when n = 0) and the first hook error without calling any later hook.
C11_ComposeChainsInOrder ==
    hookCall.op = "Compose" => CalledInOrder /\ ChainedCalls /\ ComposedReturn

\* C11 witness: the hook answering 42 was composed with two more for a
\* string, the second was called with the kind int and the third, failing,
\* ended the call
C11_Witness ==
    /\ hookCall.op = "Compose"
    /\ hookCall.fs = <<"fortyTwo", "foo", "failF1">>
    /\ hookCall.data = VStr("a")
    /\ Len(hookCall.log) = 3
    /\ hookCall.log[2].f = "int" /\ hookCall.log[3].data = VInt(42)
    /\ ~hookCall.ok /\ hookCall.msg = "f1 error"

\* every hook tried got the data and the kinds of the composed call
OriginalInput ==
    \A i \in 1..Len(hookCall.log) :
        /\ hookCall.log[i].data = hookCall.data
        /\ hookCall.log[i].f = hookCall.f

\* the hooks that succeed on the input of the composed call
Succeeding ==
    {i \in 1..Len(hookCall.fs) :
        CallHook(hookCall.fs[i], hookCall.f, hookCall.t, hookCall.data).ok}

RECURSIVE Lines(_)
\* the messages of a list of failing hooks, each terminated by a newline
Lines(fs) ==
    IF fs = <<>> THEN ""
    ELSE CallHook(Head(fs), hookCall.f, hookCall.t, hookCall.data).msg \o "\n"
            \o Lines(Tail(fs))

\* C12: OrComposeDecodeHookFunc(f1,...,fn) gives every hook it tries the
\* original input and returns the result of the first hook, in argument
\* order, that succeeds, without consulting later hooks; it returns an error
\* only if every hook fails, the message being the hooks' messages in
\* attempt order, each terminated by a newline.
C12_OrComposeFirstSuccess ==
    hookCall.op = "OrCompose" =>
        /\ CalledInOrder /\ OriginalInput
        /\ IF Succeeding # {}
           THEN LET k == CHOOSE i \in Succeeding : \A j \in Succeeding : i <= j
                IN  /\ Len(hookCall.log) = k
                    /\ hookCall.ok
                    /\ hookCall.v = CallHook(hookCall.fs[k], hookCall.f, hookCall.t,
                                             hookCall.data).v
           ELSE /\ Len(hookCall.log) = Len(hookCall.fs)
                /\ ~hookCall.ok
                /\ hookCall.msg = Lines(hookCall.fs)

\* C12 witness: two failing hooks were composed for the string "a" and the
\* error carries both messages (TestOrComposeDecodeHookFunc_err)
C12_Witness ==
    /\ hookCall.op = "OrCompose"
    /\ hookCall.fs = <<"failF1", "failF2">>
    /\ hookCall.data = VStr("a")
    /\ ~hookCall.ok /\ hookCall.msg = "f1 error\nf2 error\n"

-----------------------------------------------------------------------------
(***************************************************************************)
(* Claims about DecodingErrors.                                            *)
(***************************************************************************)
\* the members of the aggregate the step's call was made on, before and after
Before == agg.objs[agg'.op.target]
After == agg'.objs[agg'.op.target]

\* what one Append call does to its aggregate: nothing for nil and for a nil
\* pointer, the members of an aggregate added in their order, one member with
\* the error's message added for any other error
AppendAdds ==
    CASE agg'.op.err.t \in {"nil", "nilptr"} -> After = Before /\ heap' = heap
      [] agg'.op.err.t = "aggregate" -> After = Before \o agg.objs[agg'.op.err.j]
      [] OTHER ->
            /\ Len(After) = Len(Before) + 1
            /\ SubSeq(After, 1, Len(Before)) = Before
            /\ After[Len(After)].msg =
                  (IF agg'.op.err.t = "located" THEN "bad " \o agg'.op.err.key
                   ELSE agg'.op.err.msg)

\* every member is a DecodingError, none an aggregate, and Len() is the
\* number of leaf errors appended
FlatAfter ==
    \A t \in 1..Len(agg'.objs) :
        /\ Len(agg'.objs[t]) = agg'.leaves[t]
        /\ \A i \in 1..Len(agg'.objs[t]) : DOMAIN agg'.objs[t][i] = {"ns", "msg"}

\* C13: after any sequence of Append calls the aggregate is a flat list:
\* nil and a typed-nil pointer change nothing, an aggregate with m members
\* adds those m members in their order, any other error adds one member
\* wrapping it; no member is an aggregate and Len() is the number of leaf
\* errors appended.
C13_AppendKeepsFlat ==
    [][/\ agg'.op.name = "Append" => AppendAdds
       /\ agg'.op.name \in {"New", "Append"} => FlatAfter]_vars

\* C13 witness: an aggregate holding one member was appended to another that
\* held one, which holds two now
C13_Witness ==
    /\ agg.op.name = "Append"
    /\ agg.op.err.t = "aggregate" /\ agg.op.err.j # agg.op.target
    /\ Len(agg.objs[agg.op.err.j]) = 1
    /\ Len(agg.objs[agg.op.target]) = 2

\* the segments of the namespace a call was given, as it was built
ArgItems == [j \in 1..Len(agg'.op.keys) |-> NamespaceKey(agg'.op.keys[j])]

\* the step leaves the number, the order and the messages of the members
\* alone, and the argument as it was
MembersKept ==
    /\ Len(After) = Len(Before)
    /\ \A i \in 1..Len(Before) : After[i].msg = Before[i].msg
    /\ Items(heap', agg'.op.p) = ArgItems

\* C14: PrependNamespace(p) on an aggregate changes every member's namespace
\* to p followed by the member's previous namespace, AppendNamespace(p) to
\* the previous namespace followed by p, for all members independently; the
\* number of members, their order and their messages are unchanged and p is
\* not modified.
C14_NamespaceMovesEveryMember ==
    [][/\ agg'.op.name = "PrependNamespace" =>
             /\ MembersKept
             /\ \A i \in 1..Len(Before) :
                   Items(heap', After[i].ns) = ArgItems \o Items(heap, Before[i].ns)
       /\ agg'.op.name = "AppendNamespace" =>
             /\ MembersKept
             /\ \A i \in 1..Len(Before) :
                   Items(heap', After[i].ns) = Items(heap, Before[i].ns) \o ArgItems]_vars

-----------------------------------------------------------------------------
FlatOf(v) == VStruct(<<v.fv[1].fv[1].fv[1], v.fv[1].fv[2], v.fv[2]>>)

\* the last call done again with the flat record as the destination
FlatCall ==
    decode(cfg,
           [h |-> <<>>, Keys |-> last.preMd.Keys, Unused |-> last.preMd.Unused,
            Unset |-> last.preMd.Unset, log |-> <<>>],
           NilSlice, last.input, FlatT, FlatOf(last.pre))

\* the members of a rendered aggregate, whatever their order
Members(errs) == {errs[i] : i \in 1..Len(errs)}

\* C16: a record that squashes an embedded record which itself squashes an
\* embedded record decodes a flat source map as the record that declares the
\* same fields directly: the same field values, the same errors and the same
\* unused keys and unset fields.
C16_SquashDecodesAsFlat ==
    (Decoded /\ scen = "squash") =>
        /\ FlatOf(dst) = FlatCall.v
        /\ last.isNil = FlatCall.isNil
        /\ Len(last.errs) = Len(FlatCall.e)
        /\ Members(last.errs) = Members(Render(FlatCall.m.h, FlatCall.e))
        /\ md.Unused = FlatCall.m.Unused
        /\ Members(md.Unset) = Members(FlatCall.m.Unset)

\* C16 witness: the flat source of the tests, with an invalid value for the
\* field two levels down and a key no field takes
C16_Witness ==
    /\ Decoded /\ scen = "squash" /\ cfg.Metadata /\ ~cfg.ErrorUnused
    /\ \E i \in 1..Len(last.input.m) :
          last.input.m[i] = Entry("vstring", VInt(1))
    /\ \E i \in 1..Len(last.input.m) :
          last.input.m[i] = Entry("vunique", VStr("bar"))
    /\ dst.fv[2] = VStr("bar")
    /\ \E i \in 1..Len(last.errs) : last.errs[i].path = "Vstring"

\* the source entries given for the map M of the holder, <<>> when the source
\* of M is not a map
SourceOfM ==
    IF scen = "holder" /\ last.input.k = "map" /\ Bound(last.input, "M") # 0
          /\ last.input.m[Bound(last.input, "M")].val.k = "map"
    THEN last.input.m[Bound(last.input, "M")].val.m
    ELSE <<>>

\* the keys of a map value
KeysOf(v) == IF v.k = "dmap" THEN DOMAIN v.d ELSE {}

\* the value an entry of M holds after its source entry en is decoded: the
\* converted value, the zero value for a nil source, nothing when it fails
EntryDecoded(en) ==
    IF en.val.k = "nil" THEN VInt(0)
    ELSE IF Leaf(cfg, en.val, TInt(64)).kind = "" THEN Leaf(cfg, en.val, TInt(64)).v
    ELSE Absent

Given(data, key) ==
    IF \E i \in 1..Len(data.m) : data.m[i].key = key
    THEN data.m[CHOOSE i \in 1..Len(data.m) : data.m[i].key = key].val
    ELSE Absent

\* a field of a Basic after the decode of its source src (Absent when the
\* source map does not mention it), the field holding base before
FieldAfter(src, T, base) ==
    IF src = Absent THEN base
    ELSE IF Leaf(cfg, src, T).kind = "" THEN Leaf(cfg, src, T).v
    ELSE base

\* a Basic after the decode of the source map el, the Basic holding base
\* before
BasicAfter(el, base) ==
    VStruct(<<FieldAfter(Given(el, "vstring"), TString, base.fv[1]),
              FieldAfter(Given(el, "vint"), TInt(64), base.fv[2]),
              base.fv[3]>>)

\* the element a slice of Basic holds at index i when the decode of that
\* index starts
ElemBefore(i) ==
    IF ~cfg.ZeroFields /\ last.pre.k = "slice" /\ i <= Len(last.pre.l)
    THEN last.pre.l[i] ELSE Zero(BasicT)

\* the indices of a source for a slice of Basic whose decode fails
FailedElems(l) ==
    {i \in 1..Len(l) : /\ Given(l[i], "vint") # Absent
                       /\ Leaf(cfg, Given(l[i], "vint"), TInt(64)).kind # ""}

\* C18: after the decode of a non-nil source sequence of length n into a
\* slice, the slice has n elements whatever its length was.  With ZeroFields
\* off element i is decoded into the element the slice had at i, whose fields
\* the source does not mention keep their values; with ZeroFields on, and
\* for the indices the slice did not have, every element starts from the zero
\* value.  Every index is decoded, those after a failed one too, and every
\* failed one gives one member.
C18_SliceTakesSourceLength ==
    /\ (Decoded /\ scen = "bars" /\ last.input.k = "slice") =>
          /\ dst.k = "slice"
          /\ Len(dst.l) = Len(last.input.l)
          /\ \A i \in 1..Len(last.input.l) :
                dst.l[i] = BasicAfter(last.input.l[i], ElemBefore(i))
          /\ Len(last.errs) = Cardinality(FailedElems(last.input.l))
    /\ (Decoded /\ scen = "person" /\ last.input.k = "map") =>
          LET e == Given(last.input, "Emails")
          IN  (e # Absent /\ e.k = "slice") =>
                  dst.fv[3].k = "slice" /\ Len(dst.fv[3].l) = Len(e.l)

\* C18 witness: a slice of two elements decoded from a source of one element
\* that mentions Vint only: one element is left, with the Vuint it had
C18_Witness ==
    /\ Decoded /\ scen = "bars" /\ ~cfg.ZeroFields
    /\ last.pre.k = "slice" /\ Len(last.pre.l) = 2
    /\ last.input = VSlice(<<BasicSource(Absent, VInt(42))>>)
    /\ dst = VSlice(<<VStruct(<<VStr(""), VInt(42), VUint(42)>>)>>)

\* a slice extended, and an index decoded after a failed one
C18_WitnessExtended ==
    /\ Decoded /\ scen = "bars" /\ ~cfg.ZeroFields
    /\ last.pre.k = "slice" /\ Len(last.pre.l) = 2
    /\ Len(last.input.l) = 3
    /\ FailedElems(last.input.l) = {1}
    /\ dst.l[3].fv[2] = VInt(42)

\* what C19 says of a pointer after the decode of a non-nil source: pre and
\* post are the pointer before and after, fresh is the pointee decoded from
\* the zero value, inPlace the pointee decoded from the value pointed to, and
\* failed tells whether the decode of the pointee failed
PointerAfter(pre, post, fresh, inPlace, failed) ==
    IF pre.k = "ptr" /\ ~cfg.ZeroFields THEN post = VPtr(inPlace)
    ELSE IF failed THEN post = pre
    ELSE post = VPtr(fresh)

\* C19 for the field P *int of the holder
IntPointerAfter ==
    (scen = "holder" /\ Given(last.input, "P") # Absent
       /\ Given(last.input, "P").k \notin {"nil", "nilptr"}) =>
        LET src == Given(last.input, "P")
            pre == last.pre.fv[2]
        IN  PointerAfter(pre, dst.fv[2],
                         FieldAfter(src, TInt(64), VInt(0)),
                         FieldAfter(src, TInt(64), IF pre.k = "ptr" THEN pre.p ELSE VInt(0)),
                         Leaf(cfg, src, TInt(64)).kind # "")

\* C19 for the field Vbar *Basic of a NestedPointer
BasicPointerAfter ==
    (scen = "nptr" /\ Given(last.input, "vbar") # Absent
       /\ Given(last.input, "vbar").k = "map") =>
        LET src == Given(last.input, "vbar")
            pre == last.pre.fv[2]
        IN  PointerAfter(pre, dst.fv[2],
                         BasicAfter(src, Zero(BasicT)),
                         BasicAfter(src, IF pre.k = "ptr" THEN pre.p ELSE Zero(BasicT)),
                         FailedElems(<<src>>) # {})

\* C19: the decode of a non-nil source into a pointer that points to a
\* value decodes into that value when ZeroFields is off, and what the source
\* does not mention is kept; into a nil pointer, or with ZeroFields on, a new
\* zero value is decoded into and the pointer is set to it only when that
\* decode succeeds.
C19_PointerReusedOrFresh ==
    (Decoded /\ cfg.DecodeHook = "none" /\ last.input.k = "map") =>
        IntPointerAfter /\ BasicPointerAfter

\* C19 for pointers other than a record's field that points to a record
C19_IntPointerReusedOrFresh ==
    (Decoded /\ cfg.DecodeHook = "none" /\ last.input.k = "map") => IntPointerAfter

\* C20: a negative integer or a negative float decoded into an unsigned
\* destination.  With WeaklyTypedInput off the node fails with an overflow
\* error and the destination keeps its value; with WeaklyTypedInput on a
\* negative integer is accepted and the destination holds the value wrapped
\* around in two's complement, 2^8 + n for a uint8.
C20_NegativeIntoUnsigned ==
    (Decoded /\ scen = "uint8" /\ SourceOfX.k \in {"int", "float"} /\ SourceOfX.n < 0) =>
        IF ~cfg.WeaklyTypedInput
        THEN /\ Len(last.errs) = 1
             /\ last.errs[1].kind = "parse overflow"
             /\ last.errs[1].path = "X"
             /\ dst.fv[1] = last.pre.fv[1]
        ELSE SourceOfX.k = "int" =>
                /\ last.isNil
                /\ dst.fv[1] = VUint(256 + SourceOfX.n)

\* C20 witness: -1 is refused for a uint8 without WeaklyTypedInput
C20_Witness ==
    /\ Decoded /\ scen = "uint8" /\ ~cfg.WeaklyTypedInput
    /\ SourceOfX = VInt(-1)
    /\ Len(last.errs) = 1
    /\ dst.fv[1] = VUint(0)

\* -1 is stored as 255 in a uint8 with WeaklyTypedInput
C20_WitnessWrapped ==
    /\ Decoded /\ scen = "uint8" /\ cfg.WeaklyTypedInput
    /\ SourceOfX = VInt(-1)
    /\ dst.fv[1] = VUint(255)

-----------------------------------------------------------------------------
(***************************************************************************)
(* Claims about weak typing, round trips and the Metadata lists.           *)
(***************************************************************************)
\* what the strings given as sources denote: [ok, n] with n the number
\* counted in tenths, ok being FALSE when the string denotes no number
Denotes(str) ==
    CASE str = "0" -> [ok |-> TRUE, n |-> 0]
      [] str = "1" -> [ok |-> TRUE, n |-> 10]
      [] str = "-1" -> [ok |-> TRUE, n |-> -10]
      [] str = "300" -> [ok |-> TRUE, n |-> 3000]
      [] str = "1.5" -> [ok |-> TRUE, n |-> 15]
      [] OTHER -> [ok |-> FALSE, n |-> 0]

\* the value a scalar destination of type T holds after the weak decode of
\* the string str, Absent when str does not parse for T
ParsedFor(str, T) ==
    LET d == Denotes(IF str = "" THEN "0" ELSE str)
        whole == d.ok /\ d.n % 10 = 0
    IN  CASE T.k = "bool" ->
                IF str \in {"", "0"} THEN VBool(FALSE)
                ELSE IF str = "1" THEN VBool(TRUE) ELSE Absent
          [] T.k = "float" -> IF d.ok THEN VFloat(d.n) ELSE Absent
          [] T.k = "int" ->
                IF ~whole THEN Absent
                ELSE IF T.bits = 8 /\ (d.n \div 10 > 127 \/ d.n \div 10 < -128) THEN Absent
                ELSE VInt(d.n \div 10)
          [] OTHER ->
                IF ~whole \/ d.n < 0 THEN Absent
                ELSE IF T.bits = 8 /\ d.n \div 10 > 255 THEN Absent
                ELSE VUint(d.n \div 10)

\* C21: under weak typing a string decoded into a bool, an int, a uint or a
\* float: "" gives false or 0, "0" gives false for a bool, any other string
\* gives the value it parses to for the destination's family and width, and
\* a string that does not parse, as "-1" for an unsigned destination, gives a
\* parse error for the node and leaves the destination as it was.
C21_WeakStringsParse ==
    (Decoded /\ scen \in ScalarScens \ {"string"} /\ cfg.WeaklyTypedInput
       /\ SourceOfX.k = "string") =>
        LET want == ParsedFor(SourceOfX.s, TypeOf(scen).f[1].ty)
        IN  IF want = Absent
            THEN /\ Len(last.errs) = 1
                 /\ last.errs[1].kind = "parse failure"
                 /\ last.errs[1].path = "X"
                 /\ dst.fv[1] = last.pre.fv[1]
            ELSE last.isNil /\ dst.fv[1] = want

\* C21 witness: "-1" refused for a uint8 under weak typing
C21_Witness ==
    /\ Decoded /\ scen = "uint8" /\ cfg.WeaklyTypedInput
    /\ SourceOfX = VStr("-1")
    /\ Len(last.errs) = 1
    /\ dst.fv[1] = VUint(0)

\* "" decoded as 0 into an int and "300" refused for an int8
C21_WitnessEmpty ==
    /\ Decoded /\ cfg.WeaklyTypedInput
    /\ \/ scen = "int64" /\ SourceOfX = VStr("") /\ dst.fv[1] = VInt(0) /\ last.isNil
       \/ scen = "int8" /\ SourceOfX = VStr("300") /\ Len(last.errs) = 1

\* C22: a record decoded into a map with string keys and that map decoded
\* into a zero-valued record of the same type: neither call returns an
\* error, and every field of the record, the fields of its nested record
\* too, holds the value it had in the original.
C22_RecordRoundTrip ==
    phase = "back" =>
        /\ last.first.isNil
        /\ last.isNil
        /\ dst = last.first.input.v

\* C22 witness: a record with values in every field, its nested record too,
\* is back after the two calls, the map in between having the nested record
\* as a map under the key Vbar
C22_Witness ==
    /\ phase = "back"
    /\ last.first.input.v =
          VStruct(<<VStr("foo"), VInt(-7), VSlice(<<VStr("a"), VStr("b")>>),
                    VStruct(<<VStr("foo"), VInt(42), VUint(42)>>)>>)
    /\ \E i \in 1..Len(last.input.m) :
          /\ last.input.m[i].key = "Vbar"
          /\ last.input.m[i].val.k = "map"
          /\ Len(last.input.m[i].val.m) = 3
    /\ dst = last.first.input.v

\* a is b, or the start of b
IsPrefix(a, b) == Len(a) <= Len(b) /\ SubSeq(b, 1, Len(a)) = a

\* the three lists of the collector after a step hold what they held before
\* it, in the same order, followed by what the step added
ListsGrow ==
    /\ IsPrefix(md.Keys, md'.Keys)
    /\ IsPrefix(md.Unused, md'.Unused)
    /\ IsPrefix(md.Unset, md'.Unset)

\* C23: across every sequence of NewDecoder and Decode calls that share one
\* Metadata collector, each call leaves Keys, Unused and Unset as they were
\* before it with entries added at the end: nothing is removed, reordered,
\* replaced or cleared.
C23_MetadataOnlyGrows == [][ListsGrow]_vars

\* the lists of the collector before the last call start its lists now
ListsKept ==
    /\ IsPrefix(last.preMd.Keys, md.Keys)
    /\ IsPrefix(last.preMd.Unused, md.Unused)
    /\ IsPrefix(last.preMd.Unset, md.Unset)

\* a second Decode call added to each of the three lists what the first had
\* left there
C23_Witness ==
    /\ scen = "shared"
    /\ calls = 2
    /\ last.preMd.Keys # <<>> /\ Len(md.Keys) > Len(last.preMd.Keys)
    /\ last.preMd.Unused # <<>> /\ Len(md.Unused) > Len(last.preMd.Unused)
    /\ last.preMd.Unset # <<>> /\ Len(md.Unset) > Len(last.preMd.Unset)
    /\ ListsKept

\* the two calls one after the other: the first from empty memory, the
\* second in the memory the first left
SequentialFirst ==
    decode(cfg[1], [h |-> <<>>, Keys |-> <<>>, Unused |-> <<>>, Unset |-> <<>>,
                    log |-> <<>>],
           NilSlice, last[1].input, PersonT, last[1].pre)

SequentialSecond ==
    decode(cfg[2], [h |-> SequentialFirst.m.h, Keys |-> <<>>, Unused |-> <<>>,
                    Unset |-> <<>>, log |-> <<>>],
           NilSlice, last[2].input, PersonT, last[2].pre)

\* instance i ended as the call r did: the destination, the three lists of
\* its collector, the error returned and its members as they read
EndedAs(i, r) ==
    /\ dst[i] = r.v
    /\ md[i].Keys = r.m.Keys
    /\ md[i].Unused = r.m.Unused
    /\ md[i].Unset = r.m.Unset
    /\ last[i].isNil = r.isNil
    /\ Render(heap, last[i].errs) = Render(r.m.h, r.e)

\* C24: two Decode calls running concurrently through independent decoder
\* instances end, whatever the interleaving of their steps, with the
\* destinations, the metadata and the errors of the two calls run one after
\* the other.
C24_ConcurrentAsSequential ==
    (scen = "concurrent" /\ \A i \in Instances : last[i].pc = -1) =>
        /\ EndedAs(1, SequentialFirst)
        /\ EndedAs(2, SequentialSecond)

\* both calls returned, one with errors and one that recorded keys, unused
\* keys and unset fields, and the memory holds arrays of both
C24_Witness ==
    /\ scen = "concurrent"
    /\ \A i \in Instances : last[i].pc = -1
    /\ Len(last[1].errs) = 2
    /\ last[2].isNil /\ md[2].Keys # <<>> /\ md[2].Unused # <<>> /\ md[2].Unset # <<>>
    /\ Len(heap) > Len(SequentialFirst.m.h)
    /\ EndedAs(1, SequentialFirst)
    /\ EndedAs(2, SequentialSecond)

\* the maps of the source of the last call, a sequence of maps
ElementMaps == last.input.l

\* element j of the source has the key of its entry en last among the
\* elements that have it
LastWith(j, en) ==
    \A j2 \in (j + 1)..Len(ElementMaps) :
        \A i2 \in 1..Len(ElementMaps[j2].m) : ElementMaps[j2].m[i2].key # en.key

\* C25: with WeaklyTypedInput on, a non-empty sequence of maps decoded into a
\* map leaves in the destination every key of every element, with the value
\* of the last element that has the key, whatever the other options are.
C25_SequenceOfMapsMerged ==
    (/\ scen = "merge"
     /\ phase = "decoded"
     /\ cfg.WeaklyTypedInput
     /\ last.isNil) =>
        /\ dst.k = "dmap"
        /\ \A j \in 1..Len(ElementMaps) : \A i \in 1..Len(ElementMaps[j].m) :
              /\ ElementMaps[j].m[i].key \in DOMAIN dst.d
              /\ LastWith(j, ElementMaps[j].m[i]) =>
                    dst.d[ElementMaps[j].m[i].key] = ElementMaps[j].m[i].val

\* the same with ZeroFields off: the elements are merged
C25_MergedUnlessZeroFields ==
    ~cfg.ZeroFields => C25_SequenceOfMapsMerged

\* two maps with different keys were decoded one after the other into the
\* map, and both keys are there
C25_Witness ==
    /\ scen = "merge"
    /\ phase = "decoded"
    /\ cfg.WeaklyTypedInput /\ ~cfg.ZeroFields
    /\ last.isNil
    /\ last.input = VSlice(<<VMap(<<Entry("k", VInt(1))>>), VMap(<<Entry("j", VInt(2))>>)>>)
    /\ dst.k = "dmap" /\ DOMAIN dst.d = {"i", "j", "k"}

\* the entries of the source of the last call under the key
EntriesFor(key) ==
    {i \in 1..Len(last.input.m) : last.input.m[i].key = key}

\* the source of the last call without its entries under the key
Without(key) ==
    VMap(SelectSeq(last.input.m, LAMBDA en : en.key # key))

\* the value of the field Name of the record after the call
NameAfter == dst.fv[1]

\* C26: the source key of a field is the key equal to the field's name when
\* there is one, and a key that MatchName accepts only when there is none:
\* with the keys "Name" and "name" both in the source, the field Name ends as
\* it does without the key "name", and holds the string under "Name"; with
\* the key "name" alone it holds the string under "name".
C26_ExactKeyFirst ==
    (scen = "person" /\ phase = "decoded" /\ last.input.k = "map") =>
        /\ EntriesFor("Name") # {} =>
              /\ dst = decode(cfg, [StartState EXCEPT !.Keys = last.preMd.Keys,
                                                      !.Unused = last.preMd.Unused,
                                                      !.Unset = last.preMd.Unset],
                              NilSlice, Without("name"), PersonT, last.pre).v
              /\ \A i \in EntriesFor("Name") :
                    last.input.m[i].val.k = "string" => NameAfter = last.input.m[i].val
        /\ (EntriesFor("Name") = {} /\ EntriesFor("name") # {}) =>
              \A i \in EntriesFor("name") : NameAfter = last.input.m[i].val

\* both keys were in the source, with different strings, and the field holds
\* the string of the key "Name"
C26_Witness ==
    /\ scen = "person"
    /\ phase = "decoded"
    /\ last.input.k = "map"
    /\ \E i \in EntriesFor("Name") : last.input.m[i].val = VStr("x")
    /\ \E i \in EntriesFor("name") : last.input.m[i].val = VStr("y")
    /\ last.pre.fv[1] = VStr("p")
    /\ NameAfter = VStr("x")

\* the key "name" alone was in the source, and the field holds its string
C26_WitnessMatchName ==
    /\ scen = "person"
    /\ phase = "decoded"
    /\ last.input.k = "map"
    /\ EntriesFor("Name") = {}
    /\ \E i \in EntriesFor("name") : last.input.m[i].val = VStr("y")
    /\ NameAfter = VStr("y")

\* the last call decoded a sequence longer than the array
LongerSource ==
    /\ scen = "array"
    /\ phase = "decoded"
    /\ last.input.k = "slice"
    /\ Len(last.input.l) > TypeOf(scen).n

\* C27: a source sequence longer than the destination array gives an
\* incompatible-size error for the node, and no index outside the array is
\* read or written, whatever the array held before and whatever ZeroFields
\* is.
C27_LongerSourceIsSizeError ==
    LongerSource =>
        /\ \E i \in 1..Len(last.errs) :
              last.errs[i].kind = "incompatible size" /\ last.errs[i].path = ""
        /\ \A i \in 1..Len(last.errs) : last.errs[i].kind # "panic"

\* the same for an array that holds its zero value, or with ZeroFields on:
\* the error is the only member and the array is left as it was
C27_SizeErrorIntoZeroArray ==
    (LongerSource /\ (cfg.ZeroFields \/ last.pre = Zero(TypeOf(scen)))) =>
        /\ Len(last.errs) = 1
        /\ last.errs[1].kind = "incompatible size" /\ last.errs[1].path = ""
        /\ dst = last.pre

\* a sequence of three decoded into a zeroed array of two
C27_Witness ==
    /\ LongerSource
    /\ last.pre = Zero(TypeOf(scen))
    /\ Len(last.errs) = 1
    /\ last.errs[1].kind = "incompatible size"

\* the last call again with the range over the source's keys yielding the
\* entries in the order o
Reordered(o) ==
    decode(cfg, [StartState EXCEPT !.Keys = last.preMd.Keys,
                                   !.Unused = last.preMd.Unused,
                                   !.Unset = last.preMd.Unset],
           NilSlice, VMap(o), TypeOf(scen), last.pre)

\* the call r ended as the last call did: the same destination and the same
\* set of error members
SameOutcome(r) ==
    /\ r.v = dst
    /\ {Render(r.m.h, r.e)[i] : i \in 1..Len(r.e)}
            = {last.errs[i] : i \in 1..Len(last.errs)}

\* the keys of the source of the last call that match the field Name through
\* MatchName only
FoldOnly ==
    {i \in 1..Len(last.input.m) :
        /\ last.input.m[i].key # "Name"
        /\ EqualFold(last.input.m[i].key, "Name")}

\* C28: for a fixed source, destination and configuration, the destination
\* and the set of error members are the same for every order in which the
\* range over the source map yields its keys, also when several keys match
\* one field through MatchName only.
C28_IterationOrderFree ==
    (scen = "fold" /\ phase = "decoded") =>
        \A o \in Orders({last.input.m[i] : i \in 1..Len(last.input.m)}) :
            SameOutcome(Reordered(o))

\* the same unless several keys match a field through MatchName only and no
\* key is equal to the field's name
C28_OrderFreeWithOneMatch ==
    (/\ scen = "fold" /\ phase = "decoded"
     /\ (Cardinality(FoldOnly) <= 1 \/ \E i \in 1..Len(last.input.m) :
                                          last.input.m[i].key = "Name")) =>
        \A o \in Orders({last.input.m[i] : i \in 1..Len(last.input.m)}) :
            SameOutcome(Reordered(o))

\* a source with a key equal to the field's name, two more that differ from
\* it in case and a value that does not decode, in an order that has the
\* differing keys first
C28_Witness ==
    /\ scen = "fold" /\ phase = "decoded"
    /\ Len(last.input.m) = 4
    /\ last.input.m[1].key = "NAME" /\ last.input.m[2].key = "name"
    /\ last.input.m[4].key = "Name"
    /\ Len(last.errs) = 1
    /\ dst.fv[1] = VStr("x")

-----------------------------------------------------------------------------
(***************************************************************************)
(* Claims about DecodingError, stated over the last call on it.            *)
(***************************************************************************)
\* C29: NewDecodingError(k).Wrap(err) and NewDecodingError(k).Format(...)
\* report the kind k; AsDecodingError of an error that is no *DecodingError
\* reports DecodingErrorGeneric, and AsDecodingError of a *DecodingError
\* returns it with its kind unchanged.
C29_KindKept ==
    /\ (agg.by \in {"Wrap", "Format"} /\ agg.recvBy = "NewDecodingError") =>
            GetKind(agg.e) = GetKind(agg.recv)
    /\ (agg.by = "AsDecodingError" /\ agg.arg = "other") =>
            GetKind(agg.e) = "DecodingErrorGeneric"
    /\ (agg.by = "AsDecodingError" /\ agg.arg = "DecodingError") =>
            agg.e = agg.recv

\* the part of it that the code keeps: AsDecodingError of a *DecodingError
\* returns that *DecodingError
C29_AsDecodingErrorReturnsSame ==
    (agg.by = "AsDecodingError" /\ agg.arg = "DecodingError") => agg.e = agg.recv

\* AsDecodingError was handed a *DecodingError of the kind
\* DecodingErrorIncompatibleSize that NewDecodingError had made
C29_Witness ==
    /\ agg.by = "AsDecodingError" /\ agg.arg = "DecodingError"
    /\ agg.recvBy = "NewDecodingError"
    /\ GetKind(agg.e) = "DecodingErrorIncompatibleSize"

\* C30: SetDstValue(v) makes GetDstValue() return v and leaves GetSrcValue()
\* as it was, and SetSrcValue(v) makes GetSrcValue() return v and leaves
\* GetDstValue() as it was, after any sequence of the two setters.
C30_SettersAreIndependent ==
    /\ agg.by = "SetDstValue" =>
            /\ GetDstValue(agg.e) = agg.arg
            /\ GetSrcValue(agg.e) = GetSrcValue(agg.recv)
    /\ agg.by = "SetSrcValue" =>
            /\ GetSrcValue(agg.e) = agg.arg
            /\ GetDstValue(agg.e) = GetDstValue(agg.recv)

\* the half of it that the code keeps: SetSrcValue
C30_SetSrcValueOnly ==
    agg.by = "SetSrcValue" =>
        /\ GetSrcValue(agg.e) = agg.arg
        /\ GetDstValue(agg.e) = GetDstValue(agg.recv)

\* SetSrcValue was called on an error on which both setters had been called
C30_Witness ==
    /\ agg.by = "SetSrcValue" /\ agg.recvBy = "SetDstValue"
    /\ agg.ops = 4
    /\ GetSrcValue(agg.e) = "a" /\ GetSrcValue(agg.recv) = "b"
=============================================================================
